---------------------------- MODULE Spec2Model ----------------------------
(***************************************************************************)
(* A model of py-omop2neo4j-lpg: the sanitizers (utils.py), the offline    *)
(* bulk-file transformer (transformation.py) and the online LOAD CSV       *)
(* loader with its command line wrappers (loading.py, cli.py).             *)
(*                                                                         *)
(* Text is modelled as a sequence of one-character strings, so that the    *)
(* regular-expression steps of the sanitizers are computed character by    *)
(* character.  A CSV file is a sequence of blocks, one per to_csv call:    *)
(* whether the call wrote a header line, and the rows it wrote.            *)
(***************************************************************************)
EXTENDS Integers, Sequences, FiniteSets, Bags, TLC

(***************************************************************************)
(* Bounds of the model.                                                    *)
(***************************************************************************)
MaxRows == 2

MaxChunk == 2

MaxRuns == 2

(***************************************************************************)
(* Characters.                                                             *)
(***************************************************************************)
LowerCase == <<"a","b","c","d","e","f","g","h","i","j","k","l","m",
               "n","o","p","q","r","s","t","u","v","w","x","y","z">>

UpperCase == <<"A","B","C","D","E","F","G","H","I","J","K","L","M",
               "N","O","P","Q","R","S","T","U","V","W","X","Y","Z">>

Digits == {"0","1","2","3","4","5","6","7","8","9"}

IsLower(c) == \E i \in 1..26 : LowerCase[i] = c

IsUpper(c) == \E i \in 1..26 : UpperCase[i] = c

\* The character class [A-Za-z0-9] of the sanitizers' regular expressions.
IsAlnum(c) == IsLower(c) \/ IsUpper(c) \/ c \in Digits

\* str.upper() on one ASCII character.
ToUpper(c) == IF IsLower(c)
              THEN UpperCase[CHOOSE i \in 1..26 : LowerCase[i] = c]
              ELSE c

UpperStr(s) == [i \in 1..Len(s) |-> ToUpper(s[i])]

\* Python's None where a string is expected; the strings themselves are
\* tuples of characters.
NoneValue == <<"None">>

RECURSIVE Join(_)
\* "".join(words)
Join(words) == IF words = <<>> THEN <<>> ELSE Head(words) \o Join(Tail(words))

RECURSIVE Contains(_, _)
\* sub in s (Python substring test)
Contains(sub, s) ==
  IF Len(s) < Len(sub) THEN FALSE
  ELSE IF SubSeq(s, 1, Len(sub)) = sub THEN TRUE
  ELSE Contains(sub, Tail(s))

(***************************************************************************)
(* utils.py: standardize_label                                             *)
(***************************************************************************)
RECURSIVE ReSplit(_, _, _, _, _)
\* re.split(r'[^A-Za-z0-9]+', s): the words between the maximal separator
\* runs, an empty word where s starts or ends with a separator.
ReSplit(s, i, cur, acc, inSep) ==
  IF i > Len(s) THEN Append(acc, cur)
  ELSE IF IsAlnum(s[i]) THEN ReSplit(s, i + 1, Append(cur, s[i]), acc, FALSE)
  ELSE IF inSep THEN ReSplit(s, i + 1, cur, acc, TRUE)
  ELSE ReSplit(s, i + 1, <<>>, Append(acc, cur), TRUE)

\* word[0].upper() + word[1:] if word else ""
CapitalizeFirst(word) ==
  IF word = <<>> THEN <<>> ELSE <<ToUpper(word[1])>> \o Tail(word)

standardize_label(s) ==
  IF s = NoneValue \/ s = <<>> THEN <<>>
  ELSE LET words == ReSplit(s, 1, <<>>, <<>>, FALSE)
       IN  Join([k \in 1..Len(words) |-> CapitalizeFirst(words[k])])

(***************************************************************************)
(* utils.py: standardize_reltype                                           *)
(***************************************************************************)
RECURSIVE SubNonAlnum(_, _)
\* re.sub(r'[^A-Za-z0-9]+', '_', s)
SubNonAlnum(s, inSep) ==
  IF s = <<>> THEN <<>>
  ELSE IF IsAlnum(Head(s)) THEN <<Head(s)>> \o SubNonAlnum(Tail(s), FALSE)
  ELSE IF inSep THEN SubNonAlnum(Tail(s), TRUE)
  ELSE <<"_">> \o SubNonAlnum(Tail(s), TRUE)

RECURSIVE CollapseUnderscores(_, _)
\* re.sub(r'_+', '_', s)
CollapseUnderscores(s, inRun) ==
  IF s = <<>> THEN <<>>
  ELSE IF Head(s) # "_" THEN <<Head(s)>> \o CollapseUnderscores(Tail(s), FALSE)
  ELSE IF inRun THEN CollapseUnderscores(Tail(s), TRUE)
  ELSE <<"_">> \o CollapseUnderscores(Tail(s), TRUE)

RECURSIVE LStrip(_)
LStrip(s) == IF s # <<>> /\ Head(s) = "_" THEN LStrip(Tail(s)) ELSE s

RECURSIVE RStrip(_)
RStrip(s) == IF s # <<>> /\ s[Len(s)] = "_"
             THEN RStrip(SubSeq(s, 1, Len(s) - 1)) ELSE s

\* s.strip('_')
StripUnderscores(s) == RStrip(LStrip(s))

standardize_reltype(s) ==
  IF s = NoneValue \/ s = <<>> THEN <<>>
  ELSE StripUnderscores(CollapseUnderscores(UpperStr(SubNonAlnum(s, FALSE)), FALSE))

(***************************************************************************)
(* The other copies of utils.py in the repository.                         *)
(***************************************************************************)
\* str.lower() on one ASCII character.
ToLower(c) == IF IsUpper(c)
              THEN LowerCase[CHOOSE i \in 1..26 : UpperCase[i] = c]
              ELSE c

\* word.capitalize(): the first character uppercased, the others lowercased.
Capitalize(word) ==
  IF word = <<>> THEN <<>>
  ELSE <<ToUpper(word[1])>> \o [i \in 1..(Len(word) - 1) |-> ToLower(word[i + 1])]

RECURSIVE SplitChar(_, _, _, _)
\* s.split(sep): the pieces between the occurrences of sep, empty ones kept.
SplitChar(s, sep, cur, acc) ==
  IF s = <<>> THEN Append(acc, cur)
  ELSE IF Head(s) = sep THEN SplitChar(Tail(s), sep, <<>>, Append(acc, cur))
  ELSE SplitChar(Tail(s), sep, Append(cur, Head(s)), acc)

\* re.sub(r'[^a-zA-Z0-9_]', '_', s): character by character.
SubEachNonWord(s) ==
  [i \in 1..Len(s) |-> IF IsAlnum(s[i]) \/ s[i] = "_" THEN s[i] ELSE "_"]

RECURSIVE SubRuns(_, _, _, _)
\* re.sub(r'[^a-zA-Z0-9...]+', rep, s): every maximal run of characters
\* that are neither alphanumeric nor in `kept` becomes rep.
SubRuns(s, kept, rep, inSep) ==
  IF s = <<>> THEN <<>>
  ELSE IF IsAlnum(Head(s)) \/ Head(s) \in kept
       THEN <<Head(s)>> \o SubRuns(Tail(s), kept, rep, FALSE)
  ELSE IF inSep THEN SubRuns(Tail(s), kept, rep, TRUE)
  ELSE <<rep>> \o SubRuns(Tail(s), kept, rep, TRUE)

RECURSIVE StripSpaces(_)
\* s.strip()
StripSpaces(s) ==
  IF s # <<>> /\ Head(s) = " " THEN StripSpaces(Tail(s))
  ELSE IF s # <<>> /\ s[Len(s)] = " " THEN StripSpaces(SubSeq(s, 1, Len(s) - 1))
  ELSE s

\* py-omop2neo4j-lpg/src/omop2neo4j_lpg/utils.py: standardize_label
standardize_label_py(s) ==
  IF s = NoneValue \/ s = <<>> THEN <<>>
  ELSE LET words == SelectSeq(SplitChar(SubEachNonWord(s), "_", <<>>, <<>>),
                              LAMBDA w : w # <<>>)
       IN  Join([k \in 1..Len(words) |-> Capitalize(words[k])])

\* py-omop2neo4j-lpg/src/omop2neo4j_lpg/utils.py: standardize_reltype
standardize_reltype_py(s) ==
  IF s = NoneValue \/ s = <<>> THEN <<>> ELSE UpperStr(SubEachNonWord(s))

\* build/lib/omop2neo4j_lpg/utils.py: standardize_label
standardize_label_build(s) ==
  IF s = NoneValue \/ s = <<>> THEN <<>>
  ELSE LET parts == SelectSeq(SplitChar(SubRuns(s, {}, " ", FALSE), " ", <<>>, <<>>),
                              LAMBDA w : w # <<>>)
       IN  IF parts = <<>> THEN s
           ELSE Join([k \in 1..Len(parts) |-> Capitalize(parts[k])])

\* build/lib/omop2neo4j_lpg/utils.py: standardize_reltype
standardize_reltype_build(s) ==
  IF s = NoneValue \/ s = <<>> THEN <<>>
  ELSE LET spaced == StripSpaces(SubRuns(s, {"_"}, " ", FALSE))
           joined == [i \in 1..Len(spaced) |-> IF spaced[i] = " " THEN "_" ELSE spaced[i]]
       IN  UpperStr(CollapseUnderscores(joined, FALSE))

(***************************************************************************)
(* Text constants.                                                         *)
(***************************************************************************)
Drug == <<"D","r","u","g">>

DrugDevice == <<"D","r","u","g","/","D","e","v","i","c","e">>

SpecSite == <<"s","p","e","c"," ","s","i","t","e">>

Treats == <<"t","r","e","a","t","s">>

MapsTo == <<"m","a","p","s"," ","t","o">>

ConceptPrefix == <<"C","o","n","c","e","p","t",";">>

StandardSuffix == <<";","S","t","a","n","d","a","r","d">>

(***************************************************************************)
(* The extract files (the transformer's and the loader's input).           *)
(***************************************************************************)
RECURSIVE SeqsUpTo(_, _)
\* All sequences over S of length at most n.
SeqsUpTo(S, n) ==
  IF n = 0 THEN {<<>>}
  ELSE LET shorter == SeqsUpTo(S, n - 1)
       IN  shorter \cup {Append(q, x) : q \in {p \in shorter : Len(p) = n - 1}, x \in S}


\* Rows of concepts_optimized.csv: the columns the transformer and the
\* loader read.
ConceptRows ==
  { [concept_id |-> 1, domain_id |-> Drug, vocabulary_id |-> "RxNorm", standard_concept |-> "S"],
    [concept_id |-> 2, domain_id |-> Drug, vocabulary_id |-> "RxNorm", standard_concept |-> ""],
    [concept_id |-> 2, domain_id |-> DrugDevice, vocabulary_id |-> "SNOMED", standard_concept |-> "C"],
    [concept_id |-> 1, domain_id |-> SpecSite, vocabulary_id |-> "SNOMED", standard_concept |-> "S"],
    [concept_id |-> 3, domain_id |-> <<>>, vocabulary_id |-> "RxNorm", standard_concept |-> ""] }

RelTreats == [concept_id_1 |-> 1, concept_id_2 |-> 2, relationship_id |-> Treats]

RelMapsTo == [concept_id_1 |-> 2, concept_id_2 |-> 1, relationship_id |-> MapsTo]

\* Contents of concept_relationship.csv.
RelFiles == { <<>>, <<RelTreats>>, <<RelTreats, RelMapsTo>>, <<RelMapsTo, RelTreats>> }

AncUp == [descendant_concept_id |-> 1, ancestor_concept_id |-> 2,
          min_levels_of_separation |-> 1, max_levels_of_separation |-> 1]

AncDown == [descendant_concept_id |-> 2, ancestor_concept_id |-> 1,
            min_levels_of_separation |-> 1, max_levels_of_separation |-> 2]

\* Contents of concept_ancestor.csv.
AncFiles == { <<>>, <<AncUp, AncDown>>, <<AncDown, AncUp>> }

VARIABLES
  missing,      \* the column an extract file lacks: its file and its name
  domainIn,     \* domain.csv: the domain_id of each row
  vocabIn,      \* vocabulary.csv: the vocabulary_id of each row
  conceptIn,    \* concepts_optimized.csv
  relIn,        \* concept_relationship.csv
  ancIn,        \* concept_ancestor.csv
  chunk_size,   \* prepare_for_bulk_import's chunk_size
  files,        \* the files of import_dir, by their key in `paths`
  tpc,          \* where prepare_for_bulk_import stands
  truns,        \* completed runs of prepare_for_bulk_import
  header_cols,  \* the column names each header file holds
  command       \* what the last completed run returned: the command's lines

varsT == <<chunk_size, files, tpc, truns, header_cols, command>>

varsIn == <<domainIn, vocabIn, conceptIn, relIn, ancIn, missing>>

VARIABLES
  graph,        \* the destination graph: its nodes and relationships
  schema,       \* the destination's constraints and indexes
  cmd,          \* the command in progress: load_csv, clear_db, create_indexes or none
  lpc,          \* where the command stands
  no_clean,     \* load_csv's --no-clean
  batch_size,   \* load_csv's --batch-size
  driver,       \* the command's driver: none, open or closed
  todo,         \* what the current for-loop has left (clear_database, create_constraints_and_indexes)
  pending,      \* the inner transactions the current LOAD CSV statement has left
  started,      \* the stages this command has started, in order
  succeeded,    \* the stages this command has completed, in order
  outcome,      \* how the last command ended
  ncmds,        \* commands issued so far
  stmtLog,      \* the mutating statements this command has executed
  issued,       \* the statements the command in progress has sent, with their results
  failedAt,     \* the stage in which a statement of this command failed
  committed,    \* the graph as the last successful statement left it
  created,      \* what the load statements of this command have created
  maxCommit,    \* the most file rows one inner transaction of this command committed
  firstDone,    \* the graph the first completed full reload produced
  baseGraph,    \* the graph as it was when this command began
  schemaAtClear \* the schema catalog as it was when clear_database was called

varsL == <<graph, schema, cmd, lpc, no_clean, batch_size, driver, todo, pending,
           started, succeeded, outcome, ncmds, stmtLog, issued, failedAt, committed,
           created, maxCommit, firstDone, baseGraph, schemaAtClear>>

VARIABLES
  text,         \* the argument a sanitizer is called with
  fn,           \* the sanitizer called
  results       \* what it returned, and what it returned for that result

varsS == <<text, fn, results>>

VARIABLES
  vpc,          \* where the validate command stands
  concept_id,   \* validate's --concept-id
  vdriver,      \* validate's driver: none, open or closed
  node_counts,  \* what get_node_counts returned
  rel_counts,   \* what get_relationship_counts returned
  sample,       \* what verify_sample_concept returned or raised
  shown,        \* the lines validate showed for the probe and for errors
  faultAt       \* the call in which the destination failed, if any

varsV == <<vpc, concept_id, vdriver, node_counts, rel_counts, sample, shown, faultAt>>

VARIABLES
  extraction,   \* the copy of extraction.py that runs
  xfiles,       \* the files of the export directory, by their table
  xpc,          \* where the extraction stands
  xtable,       \* the table being exported: its place in SQL_QUERIES
  xconn,        \* the PostgreSQL connection: none, open or closed
  xfailed       \* the table whose export failed, 0 if none did

varsX == <<extraction, xfiles, xpc, xtable, xconn, xfailed>>

VARIABLES
  cli,          \* the copy of cli.py whose command runs
  ccmd,         \* the command invoked
  cpc,          \* where the command's function stands
  cdriver,      \* the driver the command's function holds: none, open, closed
  cfault,       \* the call that raised in this invocation, if any
  cmsgs,        \* what the command logged or echoed, in order
  cexit,        \* how the invocation ended: returned, or raised to the caller
  ccalls        \* the invocations so far

varsC == <<cli, ccmd, cpc, cdriver, cfault, cmsgs, cexit, ccalls>>

vars == <<varsIn, varsT, varsL, varsS, varsV, varsX, varsC>>

(***************************************************************************)
(* transformation.py: prepare_for_bulk_import                              *)
(***************************************************************************)
\* The output keys of the `paths` dictionary, spelled out for the test
\* `'in' not in key`.  (The five input keys all end in "_in".)
KeyChars ==
  [ domain_nodes     |-> <<"d","o","m","a","i","n","_","n","o","d","e","s">>,
    vocabulary_nodes |-> <<"v","o","c","a","b","u","l","a","r","y","_","n","o","d","e","s">>,
    concept_nodes    |-> <<"c","o","n","c","e","p","t","_","n","o","d","e","s">>,
    in_domain_rels   |-> <<"i","n","_","d","o","m","a","i","n","_","r","e","l","s">>,
    from_vocab_rels  |-> <<"f","r","o","m","_","v","o","c","a","b","_","r","e","l","s">>,
    semantic_rels    |-> <<"s","e","m","a","n","t","i","c","_","r","e","l","s">>,
    ancestor_rels    |-> <<"a","n","c","e","s","t","o","r","_","r","e","l","s">> ]

OutKeys == DOMAIN KeyChars

NodeKeys == {"domain_nodes", "vocabulary_nodes", "concept_nodes"}

RelKeys == {"in_domain_rels", "from_vocab_rels", "semantic_rels", "ancestor_rels"}

\* The header file of each category (node_files, rel_files).
HeaderKey ==
  [ domain_nodes     |-> "nodes_domain_header",
    vocabulary_nodes |-> "nodes_vocabulary_header",
    concept_nodes    |-> "nodes_concept_header",
    in_domain_rels   |-> "rels_in_domain_header",
    from_vocab_rels  |-> "rels_from_vocabulary_header",
    semantic_rels    |-> "rels_semantic_header",
    ancestor_rels    |-> "rels_ancestor_header" ]

HeaderKeys == {HeaderKey[k] : k \in OutKeys}

FileKeys == OutKeys \cup HeaderKeys

NoFile == [exists |-> FALSE, blocks |-> <<>>]

\* df.to_csv(path, index=False): the file is replaced.
ToCsvWrite(rows) == [exists |-> TRUE, blocks |-> << [header |-> TRUE, rows |-> rows] >>]

\* df.to_csv(path, mode='a', index=False, header=h): a block is appended,
\* the file being created when it does not exist.
ToCsvAppend(f, rows, h) ==
  [exists |-> TRUE, blocks |-> Append(f.blocks, [header |-> h, rows |-> rows])]

RECURSIVE RowsOfBlocks(_)
RowsOfBlocks(blocks) ==
  IF blocks = <<>> THEN <<>> ELSE Head(blocks).rows \o RowsOfBlocks(Tail(blocks))

\* The data rows of a file, in file order.
Rows(f) == RowsOfBlocks(f.blocks)

\* The header lines of a file.
HeaderLines(f) == Cardinality({i \in 1..Len(f.blocks) : f.blocks[i].header})

\* os.remove(path) for every key with 'in' not in key whose file exists.
RemovedByClear(k) == ~Contains(<<"i","n">>, KeyChars[k])

ClearPrevious(fs) ==
  [k \in FileKeys |->
     IF k \in OutKeys /\ RemovedByClear(k) /\ fs[k].exists THEN NoFile ELSE fs[k]]

RECURSIVE ReadCsvChunks(_, _)
\* pd.read_csv(path, chunksize=n): the rows in file order, n at a time; a
\* file with no data row yields one empty chunk.
ReadCsvChunks(rows, n) ==
  IF Len(rows) <= n THEN <<rows>>
  ELSE <<SubSeq(rows, 1, n)>> \o ReadCsvChunks(SubSeq(rows, n + 1, Len(rows)), n)

RECURSIVE AppendChunks(_, _, _)
\* The loop body's to_csv(mode='a', header=is_first_chunk) over the chunks.
AppendChunks(f, chunks, is_first_chunk) ==
  IF chunks = <<>> THEN f
  ELSE AppendChunks(ToCsvAppend(f, Head(chunks), is_first_chunk), Tail(chunks), FALSE)

\* A variant of lines 72-73 that marks every row whose standard_concept is
\* not empty.
ConceptLabelAnyFlag(row) ==
  ConceptPrefix \o standardize_label(row.domain_id)
    \o (IF row.standard_concept # "" THEN StandardSuffix ELSE <<>>)

\* Lines 72-73: 'Concept;' + standardize_label(domain_id), and ';Standard'
\* appended where standard_concept == 'S'.
ConceptLabel(row) ==
  ConceptPrefix \o standardize_label(row.domain_id)
    \o (IF row.standard_concept = "S" THEN StandardSuffix ELSE <<>>)

\* node_data: the renamed columns and ':LABEL'.
NodeRow(row) ==
  [id |-> row.concept_id, label |-> ConceptLabel(row),
   standard_concept |-> row.standard_concept]

InDomainRow(row) ==
  [start |-> row.concept_id, end |-> row.domain_id, type |-> "IN_DOMAIN"]

FromVocabRow(row) ==
  [start |-> row.concept_id, end |-> row.vocabulary_id, type |-> "FROM_VOCABULARY"]

\* A variant of line 109 that keeps the raw relationship_id as the type.
SemanticRowRaw(row) ==
  [start |-> row.concept_id_1, end |-> row.concept_id_2, type |-> row.relationship_id]

SemanticRow(row) ==
  [start |-> row.concept_id_1, end |-> row.concept_id_2,
   type |-> standardize_reltype(row.relationship_id)]

AncestorRow(row) ==
  [start |-> row.descendant_concept_id, end |-> row.ancestor_concept_id,
   type |-> "HAS_ANCESTOR",
   min_levels |-> row.min_levels_of_separation,
   max_levels |-> row.max_levels_of_separation]

DomainNodeRow(d) == [id |-> d, label |-> "Domain"]

VocabularyNodeRow(v) == [id |-> v, label |-> "Vocabulary"]

\* The column names the data file of each key is written with: the input's
\* columns as lines 47-58 (metadata), 62-79 (concept nodes), 83-92 (the
\* contextual relationships), 99-108 and 115-124 rename and extend them.
Columns ==
  [ domain_nodes     |-> <<":ID(Domain)", "domain_name", "domain_concept_id", ":LABEL">>,
    vocabulary_nodes |-> <<":ID(Vocabulary)", "vocabulary_name", "vocabulary_reference",
                           "vocabulary_version", "vocabulary_concept_id", ":LABEL">>,
    concept_nodes    |-> <<":ID(Concept)", "name:string", "concept_code:string",
                           "standard_concept:string", "invalid_reason:string",
                           "valid_start_date:date", "valid_end_date:date",
                           "synonyms:string[]", ":LABEL">>,
    in_domain_rels   |-> <<":ID(Concept)", ":END_ID(Domain)", ":TYPE">>,
    from_vocab_rels  |-> <<":ID(Concept)", ":END_ID(Vocabulary)", ":TYPE">>,
    semantic_rels    |-> <<":START_ID(Concept)", ":END_ID(Concept)",
                           "valid_start_date:date", "valid_end_date:date",
                           "invalid_reason:string", ":TYPE">>,
    ancestor_rels    |-> <<":START_ID(Concept)", ":END_ID(Concept)", "min_levels:int",
                           "max_levels:int", ":TYPE">> ]

\* Every extract file has its columns.
NoColumn == [file |-> "none", column |-> "none"]

\* The columns of concepts_optimized.csv that the concept loop reads by
\* name: chunk['domain_id'] and chunk['standard_concept'] (lines 72-73) and
\* the selection of the renamed columns (line 79) before anything is
\* written, chunk[[':ID(Concept)', 'vocabulary_id']] (line 89) after the
\* chunk's node and IN_DOMAIN records were appended.
ConceptColumnsRead ==
  {"concept_id", "concept_name", "concept_code", "standard_concept", "invalid_reason",
   "valid_start_date", "valid_end_date", "synonyms", "domain_id", "vocabulary_id"}

\* The stage in which the lack of the column raises KeyError, "none" if no
\* stage does.  DataFrame.rename ignores a name that is not a column, so
\* the columns that are only renamed (the identifiers of domain.csv and
\* vocabulary.csv, the columns of concept_relationship.csv other than
\* relationship_id, the columns of concept_ancestor.csv) raise nowhere.
KeyErrorStage(m) ==
  IF m.file = "concept" /\ m.column \in ConceptColumnsRead THEN "concepts"
  ELSE IF m.file = "relationship" /\ m.column = "relationship_id" THEN "semantic"
  ELSE "none"

\* The columns the data file of a key was written with.
ColumnsWritten(k) ==
  IF k = "domain_nodes" /\ missing = [file |-> "domain", column |-> "domain_id"]
  THEN Tail(Columns[k])
  ELSE Columns[k]

\* pd.read_csv(path, nrows=0): the first line of the file names the columns
\* and no row is read.  The first block of every data file was written with
\* its header.
ReadCsvHeader(f, k) ==
  IF f.exists /\ f.blocks # <<>> /\ f.blocks[1].header THEN ColumnsWritten(k) ELSE <<>>

\* A variant of the header files that leaves the label and type columns out.
HeaderOfProperties(cols) == SelectSeq(cols, LAMBDA c : c \notin {":LABEL", ":TYPE"})

\* df_header.to_csv(header_path, index=False): the one line of the header
\* file.
HeaderOf(cols) == cols

\* node_files and rel_files, lines 132-142, in the order of the dictionaries.
NodeFileOrder == <<"domain_nodes", "vocabulary_nodes", "concept_nodes">>

RelFileOrder == <<"in_domain_rels", "from_vocab_rels", "semantic_rels", "ancestor_rels">>

RECURSIVE CommandParts(_, _)
\* Lines 146-160: for each key the option with the header file, then the
\* option with the data file.
CommandParts(opt, keys) ==
  IF keys = <<>> THEN <<>>
  ELSE << [opt |-> opt, file |-> HeaderKey[Head(keys)]],
          [opt |-> opt, file |-> Head(keys)] >> \o CommandParts(opt, Tail(keys))

\* Lines 144-165: command_parts, joined by new lines into final_command.
FinalCommand ==
  << [opt |-> "neo4j-admin database import full", file |-> ""] >>
    \o CommandParts("--nodes", NodeFileOrder)
    \o CommandParts("--relationships", RelFileOrder)
    \o << [opt |-> "--delimiter=',' --array-delimiter='|' --multiline-fields=true",
           file |-> ""],
          [opt |-> "neo4j", file |-> ""] >>

\* Lines 39-43.
TStart ==
  /\ tpc = "idle"
  /\ truns < MaxRuns
  /\ files' = ClearPrevious(files)
  /\ tpc' = "metadata"
  /\ command' = <<>>
  /\ UNCHANGED <<chunk_size, truns, header_cols>>

\* Lines 45-58.
TMetadata ==
  /\ tpc = "metadata"
  /\ files' = [files EXCEPT
       !["domain_nodes"] =
          ToCsvWrite([i \in 1..Len(domainIn) |->
                        IF missing = [file |-> "domain", column |-> "domain_id"]
                        THEN [DomainNodeRow(domainIn[i]) EXCEPT !.id = NoneValue]
                        ELSE DomainNodeRow(domainIn[i])]),
       !["vocabulary_nodes"] =
          ToCsvWrite([i \in 1..Len(vocabIn) |-> VocabularyNodeRow(vocabIn[i])])]
  /\ tpc' = "concepts"
  /\ UNCHANGED <<chunk_size, truns, header_cols, command>>

\* Lines 60-96: the loop over the chunks of concepts_optimized.csv.
TConcepts ==
  /\ tpc = "concepts"
  /\ KeyErrorStage(missing) # "concepts"
  /\ LET chunks == ReadCsvChunks(conceptIn, chunk_size)
         nodes  == [c \in 1..Len(chunks) |->
                      [i \in 1..Len(chunks[c]) |-> NodeRow(chunks[c][i])]]
         doms   == [c \in 1..Len(chunks) |->
                      [i \in 1..Len(chunks[c]) |-> InDomainRow(chunks[c][i])]]
         vocs   == [c \in 1..Len(chunks) |->
                      [i \in 1..Len(chunks[c]) |-> FromVocabRow(chunks[c][i])]]
     IN  files' = [files EXCEPT
           !["concept_nodes"]   = AppendChunks(@, nodes, TRUE),
           !["in_domain_rels"]  = AppendChunks(@, doms, TRUE),
           !["from_vocab_rels"] = AppendChunks(@, vocs, TRUE)]
  /\ tpc' = "semantic"
  /\ UNCHANGED <<chunk_size, truns, header_cols, command>>

\* Lines 98-113.
TSemantic ==
  /\ tpc = "semantic"
  /\ KeyErrorStage(missing) # "semantic"
  /\ LET chunks == ReadCsvChunks(relIn, chunk_size)
         rels   == [c \in 1..Len(chunks) |->
                      [i \in 1..Len(chunks[c]) |-> SemanticRow(chunks[c][i])]]
     IN  files' = [files EXCEPT !["semantic_rels"] = AppendChunks(@, rels, TRUE)]
  /\ tpc' = "ancestor"
  /\ UNCHANGED <<chunk_size, truns, header_cols, command>>

\* Lines 115-128.
TAncestors ==
  /\ tpc = "ancestor"
  /\ LET chunks == ReadCsvChunks(ancIn, chunk_size)
         rels   == [c \in 1..Len(chunks) |->
                      [i \in 1..Len(chunks[c]) |-> AncestorRow(chunks[c][i])]]
     IN  files' = [files EXCEPT !["ancestor_rels"] = AppendChunks(@, rels, TRUE)]
  /\ tpc' = "headers"
  /\ UNCHANGED <<chunk_size, truns, header_cols, command>>

\* The first chunk of a loop lacks a column the loop body reads: KeyError
\* leaves prepare_for_bulk_import.  For vocabulary_id the chunk's records
\* of nodes_concept.csv and rels_in_domain.csv were appended before.
TKeyError ==
  /\ tpc = KeyErrorStage(missing)
  /\ IF missing = [file |-> "concept", column |-> "vocabulary_id"]
     THEN LET chunk == Head(ReadCsvChunks(conceptIn, chunk_size))
          IN  files' = [files EXCEPT
                !["concept_nodes"] =
                   ToCsvAppend(@, [i \in 1..Len(chunk) |-> NodeRow(chunk[i])], TRUE),
                !["in_domain_rels"] =
                   ToCsvAppend(@, [i \in 1..Len(chunk) |-> InDomainRow(chunk[i])], TRUE)]
     ELSE UNCHANGED files
  /\ tpc' = "raised"
  /\ UNCHANGED <<chunk_size, truns, header_cols, command>>

\* Lines 130-168: one header file per category; the command is returned.
THeaders ==
  /\ tpc = "headers"
  /\ files' = [k \in FileKeys |-> IF k \in HeaderKeys THEN ToCsvWrite(<<>>) ELSE files[k]]
  /\ header_cols' = [h \in HeaderKeys |->
                       LET k == CHOOSE d \in OutKeys : HeaderKey[d] = h
                       IN  HeaderOf(ReadCsvHeader(files[k], k))]
  /\ command' = FinalCommand
  /\ tpc' = "idle"
  /\ truns' = truns + 1
  /\ UNCHANGED chunk_size

(***************************************************************************)
(* The destination graph store.  Nodes and relationships are bags: CREATE  *)
(* adds a copy whether or not an equal one exists.  A relationship names   *)
(* its end nodes by their identifiers.                                     *)
(***************************************************************************)
EmptyGraph ==
  [concepts |-> EmptyBag, domains |-> EmptyBag, vocabs |-> EmptyBag,
   inDomain |-> EmptyBag, fromVocab |-> EmptyBag, semantic |-> EmptyBag,
   ancestor |-> EmptyBag, others |-> 0]

NoSchema == [constraints |-> {}, indexes |-> {}]

\* n copies of e, as a bag.
Copies(e, n) == IF n = 0 THEN EmptyBag ELSE [x \in {e} |-> n]

RECURSIVE SumCopies(_, _)
SumCopies(B, S) ==
  IF S = {} THEN 0
  ELSE LET x == CHOOSE y \in S : TRUE
       IN  CopiesIn(x, B) + SumCopies(B, S \ {x})

\* The number of nodes MATCH (c:Concept {concept_id: id}) finds.
ConceptCount(g, id) ==
  SumCopies(g.concepts, {n \in BagToSet(g.concepts) : n.concept_id = id})

LblConcept == <<"C","o","n","c","e","p","t">>

LblStandard == <<"S","t","a","n","d","a","r","d">>

\* apoc.text.replace(s, '[^A-Za-z0-9_]', '_')
ApocReplace(s) ==
  [i \in 1..Len(s) |-> IF IsAlnum(s[i]) \/ s[i] = "_" THEN s[i] ELSE "_"]

\* apoc.text.capitalizeAll(s): the first letter of every word, words being
\* separated by white space.
CapitalizeAll(s) ==
  [i \in 1..Len(s) |-> IF i = 1 \/ s[i - 1] = " " THEN ToUpper(s[i]) ELSE s[i]]

\* LOAD_CONCEPTS_QUERY, step 2: the label added for the domain.
OnlineDomainLabel(domain_id) == CapitalizeAll(ApocReplace(domain_id))

\* LOAD_RELATIONSHIPS_QUERY: relType.
OnlineRelType(relationship_id) == UpperStr(ApocReplace(relationship_id))

RECURSIVE Dedup(_, _)
Dedup(q, seen) ==
  IF q = <<>> THEN <<>>
  ELSE IF Head(q) \in seen THEN Dedup(Tail(q), seen)
  ELSE <<Head(q)>> \o Dedup(Tail(q), seen \cup {Head(q)})

\* A variant of the synonyms property that keeps each synonym once.
SynonymsDistinct(field) ==
  IF field = NoneValue \/ field = <<>> THEN <<>>
  ELSE Dedup(SplitChar(field, "|", <<>>, <<>>), {})

\* LOAD_CONCEPTS_QUERY, line 52: CASE WHEN row.synonyms IS NOT NULL AND
\* row.synonyms <> '' THEN split(row.synonyms, '|') ELSE [] END
Synonyms(field) ==
  IF field = NoneValue \/ field = <<>> THEN <<>>
  ELSE SplitChar(field, "|", <<>>, <<>>)

\* LOAD_CONCEPTS_QUERY, steps 1 and 2: the node CREATE makes of a row.
ConceptNode(row) ==
  [concept_id |-> row.concept_id, domain_id |-> row.domain_id,
   vocabulary_id |-> row.vocabulary_id, standard_concept |-> row.standard_concept,
   synonyms |-> Synonyms(row.synonyms),
   labels |-> {LblConcept, OnlineDomainLabel(row.domain_id)}
                \cup (IF row.standard_concept = "S" THEN {LblStandard} ELSE {})]

\* A variant of LOAD_DOMAINS_QUERY that the constraint does not stop.
LoadDomainRowUnconstrained(g, sch, d) ==
  [ok |-> TRUE, g |-> [g EXCEPT !.domains = @ (+) Copies(d, 1)]]

\* LOAD_DOMAINS_QUERY for one row: CREATE, refused by the uniqueness
\* constraint when a Domain with this identifier exists.
LoadDomainRow(g, sch, d) ==
  IF "constraint_domain_id" \in sch.constraints /\ CopiesIn(d, g.domains) > 0
  THEN [ok |-> FALSE, g |-> g]
  ELSE [ok |-> TRUE, g |-> [g EXCEPT !.domains = @ (+) Copies(d, 1)]]

\* LOAD_VOCABULARIES_QUERY for one row.
LoadVocabularyRow(g, sch, v) ==
  IF "constraint_vocabulary_id" \in sch.constraints /\ CopiesIn(v, g.vocabs) > 0
  THEN [ok |-> FALSE, g |-> g]
  ELSE [ok |-> TRUE, g |-> [g EXCEPT !.vocabs = @ (+) Copies(v, 1)]]

\* A variant of LOAD_CONCEPTS_QUERY without its last CREATE.
LoadConceptRowNoVocabEdge(g, sch, row) ==
  IF "constraint_concept_id" \in sch.constraints /\ ConceptCount(g, row.concept_id) > 0
  THEN [ok |-> FALSE, g |-> g]
  ELSE [ok |-> TRUE,
        g  |-> [g EXCEPT
                  !.concepts = @ (+) Copies(ConceptNode(row), 1),
                  !.inDomain = @ (+) Copies([from |-> row.concept_id,
                                             to |-> row.domain_id],
                                            CopiesIn(row.domain_id, g.domains))]]

\* LOAD_CONCEPTS_QUERY for one row: the node is created; MATCH (d:Domain)
\* keeps the row once per matching Domain and IN_DOMAIN is created for
\* each; MATCH (v:Vocabulary) then keeps it once per matching Vocabulary
\* and FROM_VOCABULARY is created for each.  A row no Domain matches ends
\* at the first MATCH.
LoadConceptRow(g, sch, row) ==
  IF "constraint_concept_id" \in sch.constraints /\ ConceptCount(g, row.concept_id) > 0
  THEN [ok |-> FALSE, g |-> g]
  ELSE LET k == CopiesIn(row.domain_id, g.domains)
           m == CopiesIn(row.vocabulary_id, g.vocabs)
       IN  [ok |-> TRUE,
            g  |-> [g EXCEPT
                      !.concepts  = @ (+) Copies(ConceptNode(row), 1),
                      !.inDomain  = @ (+) Copies([from |-> row.concept_id,
                                                  to |-> row.domain_id], k),
                      !.fromVocab = @ (+) Copies([from |-> row.concept_id,
                                                  to |-> row.vocabulary_id], k * m)]]

\* LOAD_RELATIONSHIPS_QUERY for one row: one relationship per pair of
\* matching end nodes.
LoadRelationshipRow(g, sch, row) ==
  LET k == ConceptCount(g, row.concept_id_1) * ConceptCount(g, row.concept_id_2)
  IN  [ok |-> TRUE,
       g  |-> [g EXCEPT !.semantic = @ (+)
                 Copies([from |-> row.concept_id_1, to |-> row.concept_id_2,
                         type |-> OnlineRelType(row.relationship_id)], k)]]

\* LOAD_ANCESTORS_QUERY for one row.
LoadAncestorRow(g, sch, row) ==
  LET k == ConceptCount(g, row.descendant_concept_id)
             * ConceptCount(g, row.ancestor_concept_id)
  IN  [ok |-> TRUE,
       g  |-> [g EXCEPT !.ancestor = @ (+)
                 Copies([from |-> row.descendant_concept_id,
                         to |-> row.ancestor_concept_id,
                         min_levels |-> row.min_levels_of_separation,
                         max_levels |-> row.max_levels_of_separation], k)]]

LoadRow(kind, g, sch, row) ==
  CASE kind = "Domain"       -> LoadDomainRow(g, sch, row)
    [] kind = "Vocabulary"   -> LoadVocabularyRow(g, sch, row)
    [] kind = "Concept"      -> LoadConceptRow(g, sch, row)
    [] kind = "Relationship" -> LoadRelationshipRow(g, sch, row)
    [] kind = "Ancestor"     -> LoadAncestorRow(g, sch, row)

RECURSIVE LoadRows(_, _, _, _)
LoadRows(kind, g, sch, rows) ==
  IF rows = <<>> THEN [ok |-> TRUE, g |-> g]
  ELSE LET r == LoadRow(kind, g, sch, Head(rows))
       IN  IF r.ok THEN LoadRows(kind, r.g, sch, Tail(rows)) ELSE r

\* One transaction: every row takes effect, or none does.
Transaction(kind, g, sch, rows) ==
  LET r == LoadRows(kind, g, sch, rows)
  IN  IF r.ok THEN r ELSE [ok |-> FALSE, g |-> g]

\* CALL { LOAD CSV ... } IN TRANSACTIONS OF $batch_size ROWS: the rows an
\* inner transaction takes are the rows that enter the CALL clause.  The
\* CALL is the first clause of the query and LOAD CSV stands inside it, so
\* one row enters it and the whole file is read in one inner transaction,
\* whatever $batch_size is.
InnerTransactions(rows, n) == <<rows>>

(***************************************************************************)
(* The destination's schema catalog.                                       *)
(***************************************************************************)
BackingIndex(name) == [name |-> name, type |-> "RANGE", owningConstraint |-> name]

PlainIndex(name) == [name |-> name, type |-> "RANGE", owningConstraint |-> ""]

LookupIndex == [name |-> "node_label_lookup_index", type |-> "LOOKUP", owningConstraint |-> ""]

\* The statements of CONSTRAINTS_AND_INDEXES, in the order of the list.
CONSTRAINTS_AND_INDEXES ==
  << [kind |-> "CONSTRAINT", name |-> "constraint_concept_id",    label |-> "Concept"],
     [kind |-> "CONSTRAINT", name |-> "constraint_domain_id",     label |-> "Domain"],
     [kind |-> "CONSTRAINT", name |-> "constraint_vocabulary_id", label |-> "Vocabulary"],
     [kind |-> "INDEX",      name |-> "index_concept_code",       label |-> "Concept"],
     [kind |-> "INDEX",      name |-> "index_standard_label",     label |-> "Standard"] >>

\* The order in which SHOW CONSTRAINTS and SHOW INDEXES list the catalog.
CatalogConstraints ==
  <<"constraint_concept_id", "constraint_domain_id", "constraint_vocabulary_id",
    "constraint_other">>

CatalogIndexes ==
  << BackingIndex("constraint_concept_id"), BackingIndex("constraint_domain_id"),
     BackingIndex("constraint_vocabulary_id"), BackingIndex("constraint_other"),
     PlainIndex("index_concept_code"), PlainIndex("index_standard_label"),
     PlainIndex("index_other"), LookupIndex >>

ShowConstraints(sch) == SelectSeq(CatalogConstraints, LAMBDA n : n \in sch.constraints)

ShowIndexes(sch) == SelectSeq(CatalogIndexes, LAMBDA i : i \in sch.indexes)

\* Two nodes of the label share the constrained property.
HasDuplicates(g, label) ==
  CASE label = "Concept"    -> \E n \in BagToSet(g.concepts) : ConceptCount(g, n.concept_id) > 1
    [] label = "Domain"     -> \E d \in BagToSet(g.domains) : CopiesIn(d, g.domains) > 1
    [] label = "Vocabulary" -> \E v \in BagToSet(g.vocabs) : CopiesIn(v, g.vocabs) > 1
    [] OTHER                -> FALSE

\* A variant of CONSTRAINTS_AND_INDEXES without IF NOT EXISTS: creating
\* what exists is an error.
CreateSchemaStrict(sch, g, stmt) ==
  IF stmt.name \in sch.constraints \/ \E i \in sch.indexes : i.name = stmt.name
  THEN [ok |-> FALSE, schema |-> sch]
  ELSE IF stmt.kind = "CONSTRAINT"
  THEN [ok |-> ~HasDuplicates(g, stmt.label),
        schema |-> IF HasDuplicates(g, stmt.label) THEN sch
                   ELSE [constraints |-> sch.constraints \cup {stmt.name},
                         indexes |-> sch.indexes \cup {BackingIndex(stmt.name)}]]
  ELSE [ok |-> TRUE, schema |-> [sch EXCEPT !.indexes = @ \cup {PlainIndex(stmt.name)}]]

\* CREATE CONSTRAINT name IF NOT EXISTS ... IS UNIQUE and
\* CREATE INDEX name IF NOT EXISTS: nothing happens when it exists; a
\* constraint the data violates is refused.
CreateSchema(sch, g, stmt) ==
  IF stmt.kind = "CONSTRAINT"
  THEN IF stmt.name \in sch.constraints THEN [ok |-> TRUE, schema |-> sch]
       ELSE IF HasDuplicates(g, stmt.label) THEN [ok |-> FALSE, schema |-> sch]
       ELSE [ok |-> TRUE,
             schema |-> [constraints |-> sch.constraints \cup {stmt.name},
                         indexes |-> sch.indexes \cup {BackingIndex(stmt.name)}]]
  ELSE IF \E i \in sch.indexes : i.name = stmt.name THEN [ok |-> TRUE, schema |-> sch]
       ELSE [ok |-> TRUE,
             schema |-> [sch EXCEPT !.indexes = @ \cup {PlainIndex(stmt.name)}]]

\* DROP CONSTRAINT name: the constraint goes, and the index that backs it.
DropConstraint(sch, name) ==
  [constraints |-> sch.constraints \ {name},
   indexes |-> {i \in sch.indexes : i.owningConstraint # name}]

\* DROP INDEX name
DropIndex(sch, name) == [sch EXCEPT !.indexes = {i \in @ : i.name # name}]

\* A variant of line 147 that leaves the token lookup indexes alone.
DropsIndexNotLookup(record) == record.type # "LOOKUP"

\* A variant of CLEAR_DB_QUERY that deletes nothing.
ClearDbQueryKeepsAll(g) == g

\* clear_database, line 147: the indexes the loop drops.
DropsIndex(record) == record.type # "CONSTRAINT_BACKED"

\* CLEAR_DB_QUERY: MATCH (n) DETACH DELETE n
ClearDbQuery(g) == EmptyGraph

(***************************************************************************)
(* cli.py: load_csv and clear_db, over loading.py                          *)
(***************************************************************************)
MaxCmds == 2

MaxBatch == 2

\* A variant of load_csv that loads the concepts before the metadata.
LoadCsvStagesSwapped ==
  <<"SchemaCreation", "LoadConcepts", "LoadMetadata", "LoadSemanticEdges",
    "LoadAncestorEdges">>

\* load_csv, lines 69-73: the calls after the optional clear_database.
LoadCsvStages ==
  <<"SchemaCreation", "LoadMetadata", "LoadConcepts", "LoadSemanticEdges",
    "LoadAncestorEdges">>

\* Where each stage begins.
FirstPos(stage) ==
  CASE stage = "Clearing"          -> "clr_show_c"
    [] stage = "SchemaCreation"    -> "schema"
    [] stage = "LoadMetadata"      -> "meta_domains"
    [] stage = "LoadConcepts"      -> "concepts"
    [] stage = "LoadSemanticEdges" -> "rels"
    [] stage = "LoadAncestorEdges" -> "ancestors"

StageOf(pos) ==
  CASE pos \in {"clr_show_c", "clr_drop_c", "clr_show_i", "clr_drop_i", "clr_delete"} -> "Clearing"
    [] pos = "schema" -> "SchemaCreation"
    [] pos \in {"meta_domains", "meta_vocabs"} -> "LoadMetadata"
    [] pos = "concepts" -> "LoadConcepts"
    [] pos = "rels" -> "LoadSemanticEdges"
    [] pos = "ancestors" -> "LoadAncestorEdges"
    [] OTHER -> "none"

\* The positions at which a statement is sent to the destination.
StatementPositions ==
  {"clr_show_c", "clr_drop_c", "clr_show_i", "clr_drop_i", "clr_delete", "schema",
   "meta_domains", "meta_vocabs", "concepts", "rels", "ancestors"}

\* The stage the command calls after `stage`; "none" after the last.
StageAfter(c, stage) ==
  IF c \in {"clear_db", "create_indexes"} THEN "none"
  ELSE IF stage = "Clearing" THEN LoadCsvStages[1]
  ELSE LET i == CHOOSE j \in 1..Len(LoadCsvStages) : LoadCsvStages[j] = stage
       IN  IF i = Len(LoadCsvStages) THEN "none" ELSE LoadCsvStages[i + 1]

\* The file a load stage reads and the query it runs.
StageRows(stage) ==
  CASE stage = "LoadConcepts"      -> conceptIn
    [] stage = "LoadSemanticEdges" -> relIn
    [] stage = "LoadAncestorEdges" -> ancIn

StageKind(stage) ==
  CASE stage = "LoadConcepts"      -> "Concept"
    [] stage = "LoadSemanticEdges" -> "Relationship"
    [] stage = "LoadAncestorEdges" -> "Ancestor"

LoadStages == {"LoadConcepts", "LoadSemanticEdges", "LoadAncestorEdges"}

\* A variant of run_cypher_query that swallows the error of the domain load.
RaiseSwallowed(pos) == IF pos = "meta_domains" THEN "meta_vocabs" ELSE "failed"

\* A variant of run_cypher_query that sends the failed statement again.
RaiseRetried(pos) == pos

\* run_cypher_query, lines 127-129, and the commands' except clauses: the
\* error is logged and raised again.
Raise(pos) == "failed"

\* A variant of the except clauses that wipes the graph on an error.
ExceptHandlerWipes(g) == EmptyGraph

\* load_csv, lines 79-81: the handler sends nothing to the destination.
ExceptHandler(g) == g

\* Field by field, what g2 holds beyond g1.
GraphDelta(g2, g1) ==
  [concepts |-> g2.concepts (-) g1.concepts, domains |-> g2.domains (-) g1.domains,
   vocabs |-> g2.vocabs (-) g1.vocabs, inDomain |-> g2.inDomain (-) g1.inDomain,
   fromVocab |-> g2.fromVocab (-) g1.fromVocab, semantic |-> g2.semantic (-) g1.semantic,
   ancestor |-> g2.ancestor (-) g1.ancestor, others |-> g2.others - g1.others]

GraphSum(g1, g2) ==
  [concepts |-> g1.concepts (+) g2.concepts, domains |-> g1.domains (+) g2.domains,
   vocabs |-> g1.vocabs (+) g2.vocabs, inDomain |-> g1.inDomain (+) g2.inDomain,
   fromVocab |-> g1.fromVocab (+) g2.fromVocab, semantic |-> g1.semantic (+) g2.semantic,
   ancestor |-> g1.ancestor (+) g2.ancestor, others |-> g1.others + g2.others]

\* What a command starts from: nothing started, nothing recorded.
BeginCommand(c, nc, b) ==
  /\ lpc = "idle"
  /\ ncmds < MaxCmds
  /\ cmd' = c
  /\ no_clean' = nc
  /\ batch_size' = b
  /\ driver' = "none"
  /\ todo' = <<>>
  /\ pending' = <<>>
  /\ started' = <<>>
  /\ succeeded' = <<>>
  /\ outcome' = "none"
  /\ ncmds' = ncmds + 1
  /\ stmtLog' = <<>>
  /\ issued' = <<>>
  /\ failedAt' = "none"
  /\ committed' = graph
  /\ created' = EmptyGraph
  /\ maxCommit' = 0
  /\ baseGraph' = graph
  /\ schemaAtClear' = schema
  /\ UNCHANGED <<graph, schema, firstDone>>

\* cli.py, load_csv, lines 49-58: the options are read, driver = None.
LoadCsvBegin(nc, b) ==
  /\ BeginCommand("load_csv", nc, b)
  /\ lpc' = "connect"

\* cli.py, clear_db, line 30: the confirmation option asks before the body.
ClearDbBegin ==
  /\ BeginCommand("clear_db", FALSE, batch_size)
  /\ lpc' = "confirm"

\* cli.py, create_indexes, lines 102-105.
CreateIndexesBegin ==
  /\ BeginCommand("create_indexes", no_clean, batch_size)
  /\ lpc' = "connect"

\* The statement run_cypher_query sends at the command's position: the
\* query, and the element of the loop or of the inner transactions it is
\* sent for.
StatementAt ==
  [pos  |-> lpc,
   item |-> IF lpc = "clr_drop_c" THEN Head(todo)
            ELSE IF lpc \in {"clr_drop_i", "schema"} THEN Head(todo).name
            ELSE lpc,
   left |-> IF lpc \in {"concepts", "rels", "ancestors"} THEN Len(pending) ELSE 0]

\* A stage is called: its position, its loop list, its inner transactions.
Enter(stage) ==
  /\ lpc' = FirstPos(stage)
  /\ started' = Append(started, stage)
  /\ todo' = IF stage = "SchemaCreation" THEN CONSTRAINTS_AND_INDEXES ELSE <<>>
  /\ pending' = IF stage \in LoadStages
                THEN InnerTransactions(StageRows(stage), batch_size)
                ELSE <<>>

\* A stage returns: the command calls the next one, or has none left.
Finish(stage) ==
  /\ succeeded' = Append(succeeded, stage)
  /\ IF StageAfter(cmd, stage) = "none"
     THEN /\ lpc' = "success"
          /\ todo' = <<>>
          /\ pending' = <<>>
          /\ UNCHANGED started
     ELSE Enter(StageAfter(cmd, stage))

\* A statement raises: the error leaves run_cypher_query and the stage.
Fail ==
  /\ lpc' = Raise(lpc)
  /\ failedAt' = StageOf(lpc)

\* get_neo4j_driver, lines 107-116, as called by either command.
Connect ==
  /\ lpc = "connect"
  /\ driver' = "open"
  /\ IF cmd = "clear_db" THEN Enter("Clearing") /\ UNCHANGED succeeded
     ELSE IF cmd = "create_indexes" THEN Enter("SchemaCreation") /\ UNCHANGED succeeded
     ELSE IF no_clean THEN Enter(LoadCsvStages[1]) /\ UNCHANGED succeeded
     ELSE lpc' = "confirm" /\ UNCHANGED <<started, succeeded, todo, pending>>
  /\ UNCHANGED <<graph, schema, cmd, no_clean, batch_size, outcome, ncmds, issued, stmtLog,
                 failedAt, committed, created, maxCommit, firstDone, baseGraph,
                 schemaAtClear>>

\* get_neo4j_driver, lines 117-119: no driver is returned.
ConnectFails ==
  /\ lpc = "connect"
  /\ lpc' = Raise(lpc)
  /\ UNCHANGED <<graph, schema, cmd, no_clean, batch_size, driver, todo, pending,
                 started, succeeded, outcome, ncmds, issued, stmtLog, failedAt, committed,
                 created, maxCommit, firstDone, baseGraph, schemaAtClear>>

\* A decline that is not honoured: the command carries on as if confirmed.
AfterDeclineProceeds(c) == IF c = "clear_db" THEN "connect" ELSE "clr_show_c"

\* Where a declined confirmation leaves the command: clear_db's body is
\* never entered (line 30), load_csv returns through its finally clause
\* (lines 65-67, 82-84).
AfterDecline(c) == IF c = "clear_db" THEN "idle" ELSE "finally"

\* click.confirm (load_csv, lines 63-67) and click.confirmation_option
\* (clear_db, line 30).
Confirm(yes) ==
  /\ lpc = "confirm"
  /\ IF cmd = "clear_db"
     THEN /\ lpc' = IF yes THEN "connect" ELSE AfterDecline(cmd)
          /\ outcome' = IF yes THEN outcome ELSE "cancelled"
          /\ UNCHANGED <<started, todo, pending>>
     ELSE IF yes THEN Enter("Clearing") /\ UNCHANGED outcome
          ELSE /\ lpc' = AfterDecline(cmd)
               /\ outcome' = "cancelled"
               /\ UNCHANGED <<started, todo, pending>>
  /\ UNCHANGED <<graph, schema, cmd, no_clean, batch_size, driver, succeeded, ncmds, issued,
                 stmtLog, failedAt, committed, created, maxCommit, firstDone,
                 baseGraph, schemaAtClear>>

\* clear_database, line 137: SHOW CONSTRAINTS.
ShowConstraintsStep ==
  /\ lpc = "clr_show_c"
  /\ todo' = ShowConstraints(schema)
  /\ lpc' = IF ShowConstraints(schema) = <<>> THEN "clr_show_i" ELSE "clr_drop_c"
  /\ schemaAtClear' = schema
  /\ issued' = Append(issued, [stmt |-> StatementAt, ok |-> lpc' # Raise(lpc)])
  /\ UNCHANGED <<graph, schema, cmd, no_clean, batch_size, driver, pending, started,
                 succeeded, outcome, ncmds, stmtLog, failedAt, committed, created,
                 maxCommit, firstDone, baseGraph>>

\* clear_database, lines 138-141: one turn of the loop.
DropConstraintStep ==
  /\ lpc = "clr_drop_c"
  /\ todo # <<>>
  /\ schema' = DropConstraint(schema, Head(todo))
  /\ todo' = Tail(todo)
  /\ lpc' = IF Tail(todo) = <<>> THEN "clr_show_i" ELSE "clr_drop_c"
  /\ stmtLog' = Append(stmtLog, "DROP CONSTRAINT")
  /\ issued' = Append(issued, [stmt |-> StatementAt, ok |-> lpc' # Raise(lpc)])
  /\ UNCHANGED <<graph, cmd, no_clean, batch_size, driver, pending, started, succeeded,
                 outcome, ncmds, failedAt, committed, created, maxCommit, firstDone,
                 baseGraph, schemaAtClear>>

\* clear_database, lines 144-147: SHOW INDEXES, and the records the loop
\* does not skip.
ShowIndexesStep ==
  /\ lpc = "clr_show_i"
  /\ LET records == SelectSeq(ShowIndexes(schema), LAMBDA r : DropsIndex(r))
     IN  /\ todo' = records
         /\ lpc' = IF records = <<>> THEN "clr_delete" ELSE "clr_drop_i"
  /\ issued' = Append(issued, [stmt |-> StatementAt, ok |-> lpc' # Raise(lpc)])
  /\ UNCHANGED <<graph, schema, cmd, no_clean, batch_size, driver, pending, started,
                 succeeded, outcome, ncmds, stmtLog, failedAt, committed, created,
                 maxCommit, firstDone, baseGraph, schemaAtClear>>

\* clear_database, lines 148-150: one turn of the loop.
DropIndexStep ==
  /\ lpc = "clr_drop_i"
  /\ todo # <<>>
  /\ schema' = DropIndex(schema, Head(todo).name)
  /\ todo' = Tail(todo)
  /\ lpc' = IF Tail(todo) = <<>> THEN "clr_delete" ELSE "clr_drop_i"
  /\ stmtLog' = Append(stmtLog, "DROP INDEX")
  /\ issued' = Append(issued, [stmt |-> StatementAt, ok |-> lpc' # Raise(lpc)])
  /\ UNCHANGED <<graph, cmd, no_clean, batch_size, driver, pending, started, succeeded,
                 outcome, ncmds, failedAt, committed, created, maxCommit, firstDone,
                 baseGraph, schemaAtClear>>

\* clear_database, lines 152-153.
DeleteAllStep ==
  /\ lpc = "clr_delete"
  /\ graph' = ClearDbQuery(graph)
  /\ committed' = ClearDbQuery(graph)
  /\ stmtLog' = Append(stmtLog, "DELETE")
  /\ Finish("Clearing")
  /\ issued' = Append(issued, [stmt |-> StatementAt, ok |-> lpc' # Raise(lpc)])
  /\ UNCHANGED <<schema, cmd, no_clean, batch_size, driver, outcome, ncmds, failedAt,
                 created, maxCommit, firstDone, baseGraph, schemaAtClear>>

\* create_constraints_and_indexes, lines 159-161: one turn of the loop.
CreateSchemaStep ==
  /\ lpc = "schema"
  /\ todo # <<>>
  /\ LET r == CreateSchema(schema, graph, Head(todo))
     IN  IF r.ok
         THEN /\ schema' = r.schema
              /\ IF Tail(todo) = <<>>
                 THEN Finish("SchemaCreation")
                 ELSE /\ todo' = Tail(todo)
                      /\ UNCHANGED <<lpc, pending, started, succeeded>>
              /\ UNCHANGED failedAt
         ELSE /\ Fail
              /\ UNCHANGED <<schema, todo, pending, started, succeeded>>
  /\ issued' = Append(issued, [stmt |-> StatementAt, ok |-> lpc' # Raise(lpc)])
  /\ UNCHANGED <<graph, cmd, no_clean, batch_size, driver, outcome, ncmds, stmtLog,
                 committed, created, maxCommit, firstDone, baseGraph, schemaAtClear>>

\* load_metadata, line 172: LOAD_DOMAINS_QUERY, one transaction.
LoadDomainsStep ==
  /\ lpc = "meta_domains"
  /\ LET r == Transaction("Domain", graph, schema, domainIn)
     IN  IF r.ok
         THEN /\ graph' = r.g
              /\ committed' = r.g
              /\ created' = GraphSum(created, GraphDelta(r.g, graph))
              /\ lpc' = "meta_vocabs"
              /\ UNCHANGED failedAt
         ELSE /\ Fail
              /\ UNCHANGED <<graph, committed, created>>
  /\ issued' = Append(issued, [stmt |-> StatementAt, ok |-> lpc' # Raise(lpc)])
  /\ UNCHANGED <<schema, cmd, no_clean, batch_size, driver, todo, pending, started,
                 succeeded, outcome, ncmds, stmtLog, maxCommit, firstDone, baseGraph,
                 schemaAtClear>>

\* load_metadata, lines 173-174: LOAD_VOCABULARIES_QUERY, one transaction.
LoadVocabsStep ==
  /\ lpc = "meta_vocabs"
  /\ LET r == Transaction("Vocabulary", graph, schema, vocabIn)
     IN  IF r.ok
         THEN /\ graph' = r.g
              /\ committed' = r.g
              /\ created' = GraphSum(created, GraphDelta(r.g, graph))
              /\ Finish("LoadMetadata")
              /\ UNCHANGED failedAt
         ELSE /\ Fail
              /\ UNCHANGED <<graph, committed, created, todo, pending, started,
                             succeeded>>
  /\ issued' = Append(issued, [stmt |-> StatementAt, ok |-> lpc' # Raise(lpc)])
  /\ UNCHANGED <<schema, cmd, no_clean, batch_size, driver, outcome, ncmds, stmtLog,
                 maxCommit, firstDone, baseGraph, schemaAtClear>>

\* load_concepts, load_relationships, load_ancestors (lines 177-198): the
\* next inner transaction of the stage's query commits or is rolled back.
CommitBatchStep ==
  /\ lpc \in {"concepts", "rels", "ancestors"}
  /\ pending # <<>>
  /\ LET stage == StageOf(lpc)
         r     == Transaction(StageKind(stage), graph, schema, Head(pending))
     IN  IF r.ok
         THEN /\ graph' = r.g
              /\ committed' = r.g
              /\ created' = GraphSum(created, GraphDelta(r.g, graph))
              /\ maxCommit' = IF Len(Head(pending)) > maxCommit
                              THEN Len(Head(pending)) ELSE maxCommit
              /\ IF Tail(pending) = <<>>
                 THEN Finish(stage)
                 ELSE /\ pending' = Tail(pending)
                      /\ UNCHANGED <<lpc, todo, started, succeeded>>
              /\ UNCHANGED failedAt
         ELSE /\ Fail
              /\ UNCHANGED <<graph, committed, created, maxCommit, todo, pending,
                             started, succeeded>>
  /\ issued' = Append(issued, [stmt |-> StatementAt, ok |-> lpc' # Raise(lpc)])
  /\ UNCHANGED <<schema, cmd, no_clean, batch_size, driver, outcome, ncmds, stmtLog,
                 firstDone, baseGraph, schemaAtClear>>

\* driver.execute_query raises for a reason of the destination's (the
\* connection, the server, the statement): the statement has no effect.
StatementFails ==
  /\ lpc \in StatementPositions
  /\ Fail
  /\ issued' = Append(issued, [stmt |-> StatementAt, ok |-> lpc' # Raise(lpc)])
  /\ UNCHANGED <<graph, schema, cmd, no_clean, batch_size, driver, todo, pending,
                 started, succeeded, outcome, ncmds, stmtLog, committed, created,
                 maxCommit, firstDone, baseGraph, schemaAtClear>>

\* load_csv, lines 75-77, and clear_db, line 38: success is reported.
Success ==
  /\ lpc = "success"
  /\ outcome' = "success"
  /\ firstDone' = IF cmd = "load_csv" /\ ~no_clean
                  THEN [runs |-> firstDone.runs + 1,
                        g |-> IF firstDone.runs = 0 THEN graph ELSE firstDone.g]
                  ELSE firstDone
  /\ lpc' = "finally"
  /\ UNCHANGED <<graph, schema, cmd, no_clean, batch_size, driver, todo, pending,
                 started, succeeded, ncmds, issued, stmtLog, failedAt, committed, created,
                 maxCommit, baseGraph, schemaAtClear>>

\* load_csv, lines 79-81, and clear_db, lines 39-41: the except clause.
ExceptClause ==
  /\ lpc = "failed"
  /\ graph' = ExceptHandler(graph)
  /\ outcome' = "failed"
  /\ lpc' = "finally"
  /\ UNCHANGED <<schema, cmd, no_clean, batch_size, driver, todo, pending, started,
                 succeeded, ncmds, issued, stmtLog, failedAt, committed, created, maxCommit,
                 firstDone, baseGraph, schemaAtClear>>

\* load_csv, lines 82-84, and clear_db, lines 42-44: the finally clause.
Finally ==
  /\ lpc = "finally"
  /\ driver' = IF driver = "open" THEN "closed" ELSE driver
  /\ lpc' = "idle"
  /\ issued' = <<>>
  /\ UNCHANGED <<graph, schema, cmd, no_clean, batch_size, todo, pending, started,
                 succeeded, outcome, ncmds, stmtLog, failedAt, committed, created,
                 maxCommit, firstDone, baseGraph, schemaAtClear>>

(***************************************************************************)
(* utils.py: the sanitizers, called on a text and on their own result      *)
(***************************************************************************)
MaxLen == 3

\* A lower-case letter, an upper-case letter, a digit, the separators the
\* regular expressions tell apart, and the delimiter of the synonyms.
Alphabet == {"a", "B", "1", "_", " ", "|"}

\* The arguments of test_utils.py that the claims quote.
SpecAnatomicSite ==
  <<"S","p","e","c","A","n","a","t","o","m","i","c","S","i","t","e">>

DrugIngredient == <<"D","r","u","g","/","I","n","g","r","e","d","i","e","n","t">>

LeadingSep == <<"_","l","e","a","d","i","n","g","_","s","e","p">>

DoubleUnderscore ==
  <<"d","o","u","b","l","e","_","_","u","n","d","e","r","s","c","o","r","e">>

AtcAtc == <<"A","T","C"," ","-"," ","A","T","C">>

Texts ==
  SeqsUpTo(Alphabet, MaxLen)
    \cup {NoneValue, SpecAnatomicSite, DrugIngredient, LeadingSep, DoubleUnderscore, AtcAtc}

LabelSanitizers == {"standardize_label", "standardize_label_py", "standardize_label_build"}

ReltypeSanitizers ==
  {"standardize_reltype", "standardize_reltype_py", "standardize_reltype_build"}

\* The function of each copy of utils.py.
ApplySanitizer(f, s) ==
  CASE f = "standardize_label"         -> standardize_label(s)
    [] f = "standardize_label_py"      -> standardize_label_py(s)
    [] f = "standardize_label_build"   -> standardize_label_build(s)
    [] f = "standardize_reltype"       -> standardize_reltype(s)
    [] f = "standardize_reltype_py"    -> standardize_reltype_py(s)
    [] f = "standardize_reltype_build" -> standardize_reltype_build(s)

InitSanitizer(s) ==
  /\ text = s
  /\ fn = "none"
  /\ results = <<>>

\* standardize_label(text)
CallLabel(f) ==
  /\ fn = "none"
  /\ fn' = f
  /\ results' = <<ApplySanitizer(f, text)>>
  /\ UNCHANGED text

\* standardize_reltype(text)
CallReltype(f) ==
  /\ fn = "none"
  /\ fn' = f
  /\ results' = <<ApplySanitizer(f, text)>>
  /\ UNCHANGED text

\* LOAD_CONCEPTS_QUERY's synonyms expression on the field `text`.
LoadSynonyms ==
  /\ fn = "none"
  /\ fn' = "synonyms"
  /\ results' = <<Synonyms(text)>>
  /\ UNCHANGED text

\* The sanitizer is called on what it returned.
CallAgain ==
  /\ fn \in LabelSanitizers \cup ReltypeSanitizers
  /\ Len(results) = 1
  /\ results' = Append(results, ApplySanitizer(fn, results[1]))
  /\ UNCHANGED <<text, fn>>

(***************************************************************************)
(* validation.py and the validate command                                  *)
(***************************************************************************)
MaxConceptId == 3

LblDomain == <<"D","o","m","a","i","n">>

LblVocabulary == <<"V","o","c","a","b","u","l","a","r","y">>

\* The label of a node that the pipeline did not create.
LblOther == <<"O","t","h","e","r">>

TypInDomain == <<"I","N","_","D","O","M","A","I","N">>

TypFromVocabulary == <<"F","R","O","M","_","V","O","C","A","B","U","L","A","R","Y">>

TypHasAncestor == <<"H","A","S","_","A","N","C","E","S","T","O","R">>

\* CALL db.labels(): the labels in use.
DbLabels(g) ==
  UNION {n.labels : n \in BagToSet(g.concepts)}
    \cup (IF BagToSet(g.domains) # {} THEN {LblDomain} ELSE {})
    \cup (IF BagToSet(g.vocabs) # {} THEN {LblVocabulary} ELSE {})
    \cup (IF g.others > 0 THEN {LblOther} ELSE {})

\* MATCH (:`label`) RETURN count(*)
CountLabel(g, label) ==
  SumCopies(g.concepts, {n \in BagToSet(g.concepts) : label \in n.labels})
    + (IF label = LblDomain THEN BagCardinality(g.domains) ELSE 0)
    + (IF label = LblVocabulary THEN BagCardinality(g.vocabs) ELSE 0)
    + (IF label = LblOther THEN g.others ELSE 0)

\* get_node_counts, lines 16-26: one entry for each label of db.labels().
get_node_counts(g) == [label \in DbLabels(g) |-> CountLabel(g, label)]

\* CALL db.relationshipTypes(): the types in use.
DbRelationshipTypes(g) ==
  {e.type : e \in BagToSet(g.semantic)}
    \cup (IF BagToSet(g.inDomain) # {} THEN {TypInDomain} ELSE {})
    \cup (IF BagToSet(g.fromVocab) # {} THEN {TypFromVocabulary} ELSE {})
    \cup (IF BagToSet(g.ancestor) # {} THEN {TypHasAncestor} ELSE {})

\* The start nodes of the relationships, by their identifiers.
StartNodes(g) ==
  {e.from : e \in BagToSet(g.semantic)} \cup {e.from : e \in BagToSet(g.inDomain)}
    \cup {e.from : e \in BagToSet(g.fromVocab)} \cup {e.from : e \in BagToSet(g.ancestor)}

\* MATCH (c)-[:`type`]->() RETURN count(*), for the start nodes `starts`.
CountType(g, type, starts) ==
  SumCopies(g.semantic,
            {e \in BagToSet(g.semantic) : e.type = type /\ e.from \in starts})
    + (IF type = TypInDomain
       THEN SumCopies(g.inDomain, {e \in BagToSet(g.inDomain) : e.from \in starts})
       ELSE 0)
    + (IF type = TypFromVocabulary
       THEN SumCopies(g.fromVocab, {e \in BagToSet(g.fromVocab) : e.from \in starts})
       ELSE 0)
    + (IF type = TypHasAncestor
       THEN SumCopies(g.ancestor, {e \in BagToSet(g.ancestor) : e.from \in starts})
       ELSE 0)

\* get_relationship_counts, lines 33-43: one entry for each type.
get_relationship_counts(g) ==
  [type \in DbRelationshipTypes(g) |-> CountType(g, type, StartNodes(g))]

\* A variant of verify_sample_concept that answers None when the query
\* fails.
verify_sample_concept_quiet(g, id, fails) ==
  [raised |-> FALSE, value |-> <<>>]

\* verify_sample_concept, lines 51-85.  session.run raises when the query or
\* the connection fails.  The query gives no record when no Concept has the
\* identifier, and none when the Concept has no outgoing relationship (the
\* CALL subquery then returns no row); `not result.get("concept_id")` also
\* holds for the identifier 0.  None is the empty value here, a record is a
\* value of one element.  single() gives the first record of several.
verify_sample_concept(g, id, fails) ==
  IF fails THEN [raised |-> TRUE, value |-> <<>>]
  ELSE LET nodes == {n \in BagToSet(g.concepts) : n.concept_id = id}
           types == {t \in DbRelationshipTypes(g) : CountType(g, t, {id}) > 0}
       IN  IF nodes = {} \/ types = {} \/ id = 0
           THEN [raised |-> FALSE, value |-> <<>>]
           ELSE LET c == CHOOSE n \in nodes : TRUE
                IN  [raised |-> FALSE,
                     value  |-> << [concept_id |-> c.concept_id,
                                    labels |-> c.labels,
                                    synonym_count |-> Len(c.synonyms),
                                    relationships |->
                                      [t \in types |-> CountType(g, t, {id})]] >>]

\* cli.py, validate, lines 111-120: the option is read, driver = None.
ValidateBegin(id) ==
  /\ vpc = "idle"
  /\ vpc' = "connect"
  /\ concept_id' = id
  /\ vdriver' = "none"
  /\ node_counts' = <<>>
  /\ rel_counts' = <<>>
  /\ sample' = [raised |-> FALSE, value |-> <<>>]
  /\ shown' = <<>>
  /\ faultAt' = "none"

\* validate, line 121: loading.get_driver() returns a driver.
ValidateConnect ==
  /\ vpc = "connect"
  /\ vdriver' = "open"
  /\ vpc' = "node_counts"
  /\ UNCHANGED <<concept_id, node_counts, rel_counts, sample, shown, faultAt>>

\* validate, lines 123-133: get_node_counts and its listing.
ValidateNodeCounts ==
  /\ vpc = "node_counts"
  /\ node_counts' = get_node_counts(graph)
  /\ shown' = IF DOMAIN node_counts' = {} THEN Append(shown, "No nodes found.") ELSE shown
  /\ vpc' = "rel_counts"
  /\ UNCHANGED <<concept_id, vdriver, rel_counts, sample, faultAt>>

\* validate, lines 135-142: get_relationship_counts and its listing.
ValidateRelCounts ==
  /\ vpc = "rel_counts"
  /\ rel_counts' = get_relationship_counts(graph)
  /\ shown' = IF DOMAIN rel_counts' = {}
              THEN Append(shown, "No relationships found.") ELSE shown
  /\ vpc' = "sample"
  /\ UNCHANGED <<concept_id, vdriver, node_counts, sample, faultAt>>

\* validate, lines 144-170: verify_sample_concept and what is shown for it.
ValidateSample(fails) ==
  /\ vpc = "sample"
  /\ sample' = verify_sample_concept(graph, concept_id, fails)
  /\ faultAt' = IF fails THEN "sample" ELSE faultAt
  /\ IF sample'.raised
     THEN vpc' = "except" /\ UNCHANGED shown
     ELSE /\ vpc' = "finally"
          /\ shown' = Append(Append(shown, IF sample'.value # <<>>
                                           THEN "Labels" ELSE "not found."),
                             "Validation Complete")
  /\ UNCHANGED <<concept_id, vdriver, node_counts, rel_counts>>

\* get_driver, get_node_counts or get_relationship_counts raises.
ValidateCallFails ==
  /\ vpc \in {"connect", "node_counts", "rel_counts"}
  /\ faultAt' = vpc
  /\ vpc' = "except"
  /\ UNCHANGED <<concept_id, vdriver, node_counts, rel_counts, sample, shown>>

\* validate, lines 172-174: the except clause.
ValidateExcept ==
  /\ vpc = "except"
  /\ shown' = Append(shown, "Error during validation")
  /\ vpc' = "finally"
  /\ UNCHANGED <<concept_id, vdriver, node_counts, rel_counts, sample, faultAt>>

\* validate, lines 175-177: the finally clause.
ValidateFinally ==
  /\ vpc = "finally"
  /\ vdriver' = IF vdriver = "open" THEN "closed" ELSE vdriver
  /\ vpc' = "idle"
  /\ UNCHANGED <<concept_id, node_counts, rel_counts, sample, shown, faultAt>>

(***************************************************************************)
(* extraction.py: the export of the tables to the export directory         *)
(***************************************************************************)
\* SQL_QUERIES, in the order of the dictionary.
SQL_QUERIES ==
  <<"concepts_optimized.csv", "domain.csv", "vocabulary.csv",
    "concept_relationship.csv", "concept_ancestor.csv">>

\* The three copies: omop2neo4j_lpg of py-omop2neo4j-lpg (extract_data),
\* omop2neo4j_lpg of src and omop2neo4j of src (export_tables_to_csv).
Extractions == {"py", "src", "omop2neo4j"}

\* The export directory holds of a table nothing ("none"), the file of an
\* earlier extraction ("old"), the file of this one ("new"), or a file this
\* one began ("partial").
\* open(path, "w") failed: the file is as it was.  cursor.copy_expert
\* failed: the file was created or truncated, and holds what was written.
AfterFailure(f, at) == IF at = "open" THEN f ELSE "partial"

\* The except clause of the export of one table.  extract_data, lines
\* 99-104: the file is removed if it exists.  export_tables_to_csv of both
\* other copies: the error is logged and raised, the file stays.
ExceptExport(impl, f) == IF impl = "py" THEN "none" ELSE f

\* psycopg2.connect returns a connection.
XConnect ==
  /\ xpc = "connect"
  /\ xconn' = "open"
  /\ xpc' = "export"
  /\ xtable' = 1
  /\ UNCHANGED <<extraction, xfiles, xfailed>>

\* psycopg2.connect raises: no connection, nothing to close.
XConnectFails ==
  /\ xpc = "connect"
  /\ xpc' = "raised"
  /\ UNCHANGED <<extraction, xfiles, xtable, xconn, xfailed>>

\* One turn of the loop over SQL_QUERIES: the table is exported.
XExport ==
  /\ xpc = "export"
  /\ xconn = "open"
  /\ xfiles' = [xfiles EXCEPT ![xtable] = "new"]
  /\ IF xtable = Len(SQL_QUERIES)
     THEN xpc' = "returned" /\ xconn' = "closed" /\ UNCHANGED xtable
     ELSE xtable' = xtable + 1 /\ UNCHANGED <<xpc, xconn>>
  /\ UNCHANGED <<extraction, xfailed>>

\* One turn of the loop: open or copy_expert raises, the except clause runs,
\* the error leaves the function through the finally clause.
XExportFails(at) ==
  /\ xpc = "export"
  /\ xconn = "open"
  /\ xfiles' = [xfiles EXCEPT
                  ![xtable] = ExceptExport(extraction, AfterFailure(@, at))]
  /\ xfailed' = xtable
  /\ xpc' = "raised"
  /\ xconn' = "closed"
  /\ UNCHANGED <<extraction, xtable>>

(***************************************************************************)
(* cli.py: the functions of the commands that reach the destination, in    *)
(* the three copies of the package                                         *)
(***************************************************************************)
MaxCalls == 2

Clis == {"py", "src", "build"}

\* The commands of a copy that call the destination.
CliCommands(impl) ==
  IF impl = "py" THEN {"clear_db", "load_csv", "create_indexes"}
  ELSE IF impl = "src" THEN {"clear_db", "load_csv", "create_indexes", "validate"}
  ELSE {"clear_db", "load_csv", "create_indexes"}

\* The command's function obtains the driver itself.  load_csv of the src
\* and build copies hands the whole load to run_load_csv, which is given no
\* driver.
OpensDriver(impl, c) == impl = "py" \/ c # "load_csv"

\* The except clause ends with a bare raise (py copy); the other copies
\* log, or log and echo, and fall through.
Reraises(impl) == impl = "py"

\* driver.close() stands in a finally clause.  clear_db and create_indexes
\* of the src copy call it in the try block, after the operation.
ClosesInFinally(impl, c) == ~(impl = "src" /\ c \in {"clear_db", "create_indexes"})

\* A command is invoked.
CBegin(impl, c) ==
  /\ cpc = "idle"
  /\ ccalls < MaxCalls
  /\ c \in CliCommands(impl)
  /\ cli' = impl
  /\ ccmd' = c
  /\ cdriver' = "none"
  /\ cfault' = "none"
  /\ cmsgs' = <<>>
  /\ cexit' = "none"
  /\ ccalls' = ccalls + 1
  /\ cpc' = IF OpensDriver(impl, c) THEN "connect" ELSE "operation"

\* get_driver / get_neo4j_driver returns a driver.
CConnect ==
  /\ cpc = "connect"
  /\ cdriver' = "open"
  /\ cpc' = "operation"
  /\ UNCHANGED <<cli, ccmd, cfault, cmsgs, cexit, ccalls>>

\* get_driver / get_neo4j_driver raises: driver is unbound or None.
CConnectFails ==
  /\ cpc = "connect"
  /\ cfault' = "connect"
  /\ cpc' = "except"
  /\ UNCHANGED <<cli, ccmd, cdriver, cmsgs, cexit, ccalls>>

\* The wrapped operation returns: the rest of the try block runs.
COperationReturns ==
  /\ cpc = "operation"
  /\ cdriver' = IF cdriver = "open" /\ ~ClosesInFinally(cli, ccmd)
                THEN "closed" ELSE cdriver
  /\ cmsgs' = Append(cmsgs, "success")
  /\ cpc' = "finally"
  /\ UNCHANGED <<cli, ccmd, cfault, cexit, ccalls>>

\* The wrapped operation raises: the rest of the try block is skipped.
COperationRaises ==
  /\ cpc = "operation"
  /\ cfault' = "operation"
  /\ cpc' = "except"
  /\ UNCHANGED <<cli, ccmd, cdriver, cmsgs, cexit, ccalls>>

\* except Exception as e: the error is logged, and raised again or not.
CExcept ==
  /\ cpc = "except"
  /\ cmsgs' = Append(cmsgs, "error")
  /\ cexit' = IF Reraises(cli) THEN "raised" ELSE "none"
  /\ cpc' = "finally"
  /\ UNCHANGED <<cli, ccmd, cdriver, cfault, ccalls>>

\* The finally clause, where the function has one, and the return.
CFinally ==
  /\ cpc = "finally"
  /\ cdriver' = IF cdriver = "open" /\ ClosesInFinally(cli, ccmd)
                THEN "closed" ELSE cdriver
  /\ cexit' = IF cexit = "raised" THEN "raised" ELSE "returned"
  /\ cpc' = "idle"
  /\ UNCHANGED <<cli, ccmd, cfault, cmsgs, ccalls>>

(***************************************************************************)
(* Specifications                                                          *)
(***************************************************************************)
\* No command of cli.py invoked.
InitCommands ==
  /\ cli = "py"
  /\ ccmd = "none"
  /\ cpc = "idle"
  /\ cdriver = "none"
  /\ cfault = "none"
  /\ cmsgs = <<>>
  /\ cexit = "none"
  /\ ccalls = 0

\* No extraction in progress.
InitExtraction ==
  /\ extraction = "py"
  /\ xfiles = [i \in 1..Len(SQL_QUERIES) |-> "none"]
  /\ xpc = "returned"
  /\ xtable = 1
  /\ xconn = "none"
  /\ xfailed = 0

\* A destination nothing was loaded into, and one that holds somebody
\* else's node, constraint and indexes.
FreshDb == [graph |-> EmptyGraph, schema |-> NoSchema]

DirtyDb ==
  [graph  |-> [EmptyGraph EXCEPT !.others = 1],
   schema |-> [constraints |-> {"constraint_other"},
               indexes |-> {BackingIndex("constraint_other"), PlainIndex("index_other"),
                            LookupIndex}]]

InitLoader(db) ==
  /\ graph = db.graph
  /\ schema = db.schema
  /\ cmd = "none"
  /\ lpc = "idle"
  /\ no_clean = FALSE
  /\ batch_size = 1
  /\ driver = "none"
  /\ todo = <<>>
  /\ pending = <<>>
  /\ started = <<>>
  /\ succeeded = <<>>
  /\ outcome = "none"
  /\ ncmds = 0
  /\ stmtLog = <<>>
  /\ issued = <<>>
  /\ failedAt = "none"
  /\ committed = db.graph
  /\ created = EmptyGraph
  /\ maxCommit = 0
  /\ firstDone = [runs |-> 0, g |-> EmptyGraph]
  /\ baseGraph = db.graph
  /\ schemaAtClear = db.schema

InitValidation ==
  /\ vpc = "idle"
  /\ concept_id = 0
  /\ vdriver = "none"
  /\ node_counts = <<>>
  /\ rel_counts = <<>>
  /\ sample = [raised |-> FALSE, value |-> <<>>]
  /\ shown = <<>>
  /\ faultAt = "none"

InitTransformer(n) ==
  /\ missing = NoColumn
  /\ chunk_size = n
  /\ files = [k \in FileKeys |-> NoFile]
  /\ header_cols = [h \in HeaderKeys |-> <<>>]
  /\ command = <<>>
  /\ tpc = "idle"
  /\ truns = 0

\* The transformer, run up to MaxRuns times on one extract into one
\* directory.
InitT ==
  /\ domainIn = <<Drug, DrugDevice>>
  /\ vocabIn = <<"RxNorm", "SNOMED">>
  /\ conceptIn \in SeqsUpTo(ConceptRows, MaxRows)
  /\ relIn \in RelFiles
  /\ ancIn \in AncFiles
  /\ \E n \in 1..MaxChunk : InitTransformer(n)
  /\ InitLoader(FreshDb)
  /\ InitSanitizer(<<>>)
  /\ InitValidation
  /\ InitCommands
  /\ InitExtraction

NextT ==
  \/ TStart /\ UNCHANGED <<varsIn, varsL, varsS, varsV, varsX, varsC>>
  \/ TMetadata /\ UNCHANGED <<varsIn, varsL, varsS, varsV, varsX, varsC>>
  \/ TConcepts /\ UNCHANGED <<varsIn, varsL, varsS, varsV, varsX, varsC>>
  \/ TSemantic /\ UNCHANGED <<varsIn, varsL, varsS, varsV, varsX, varsC>>
  \/ TAncestors /\ UNCHANGED <<varsIn, varsL, varsS, varsV, varsX, varsC>>
  \/ THeaders /\ UNCHANGED <<varsIn, varsL, varsS, varsV, varsX, varsC>>

SpecT == InitT /\ [][NextT]_vars

\* The cases of a missing column: an identifier that is only renamed, a
\* column read before the chunk is written, one read after a part of it was
\* written, and the column applied to in the relationship loop.
MissingCases ==
  { [file |-> "domain", column |-> "domain_id"],
    [file |-> "concept", column |-> "domain_id"],
    [file |-> "concept", column |-> "vocabulary_id"],
    [file |-> "relationship", column |-> "relationship_id"] }

\* The transformer on an extract one of whose files lacks a column.
InitM ==
  /\ missing \in MissingCases
  /\ domainIn = <<Drug, DrugDevice>>
  /\ vocabIn = <<"RxNorm", "SNOMED">>
  /\ conceptIn \in SeqsUpTo(ConceptRows, MaxRows)
  /\ relIn \in RelFiles
  /\ ancIn \in AncFiles
  /\ \E n \in 1..MaxChunk :
       /\ chunk_size = n
       /\ files = [k \in FileKeys |-> NoFile]
       /\ header_cols = [h \in HeaderKeys |-> <<>>]
       /\ command = <<>>
       /\ tpc = "idle"
       /\ truns = 0
  /\ InitLoader(FreshDb)
  /\ InitSanitizer(<<>>)
  /\ InitValidation
  /\ InitCommands
  /\ InitExtraction

NextM ==
  \/ TStart /\ UNCHANGED <<varsIn, varsL, varsS, varsV, varsX, varsC>>
  \/ TMetadata /\ UNCHANGED <<varsIn, varsL, varsS, varsV, varsX, varsC>>
  \/ TConcepts /\ UNCHANGED <<varsIn, varsL, varsS, varsV, varsX, varsC>>
  \/ TSemantic /\ UNCHANGED <<varsIn, varsL, varsS, varsV, varsX, varsC>>
  \/ TAncestors /\ UNCHANGED <<varsIn, varsL, varsS, varsV, varsX, varsC>>
  \/ THeaders /\ UNCHANGED <<varsIn, varsL, varsS, varsV, varsX, varsC>>
  \/ TKeyError /\ UNCHANGED <<varsIn, varsL, varsS, varsV, varsX, varsC>>

SpecM == InitM /\ [][NextM]_vars

\* Rows of concepts_optimized.csv for the loader: two concepts, and a row
\* that repeats an identifier.
RowDrug ==
  [concept_id |-> 1, domain_id |-> Drug, vocabulary_id |-> "RxNorm", standard_concept |-> "S",
   synonyms |-> <<"a", "|", "a", "|", "b">>]

RowDevice ==
  [concept_id |-> 2, domain_id |-> DrugDevice, vocabulary_id |-> "SNOMED", standard_concept |-> "",
   synonyms |-> <<>>]

RowRepeat ==
  [concept_id |-> 1, domain_id |-> Drug, vocabulary_id |-> "SNOMED", standard_concept |-> "",
   synonyms |-> NoneValue]

\* The concept of the OMOP vocabulary whose identifier is 0.
RowNoMatching ==
  [concept_id |-> 0, domain_id |-> Drug, vocabulary_id |-> "RxNorm", standard_concept |-> "",
   synonyms |-> <<>>]

\* Contents of concepts_optimized.csv for the loader.
ConceptFiles ==
  { <<>>, <<RowDrug>>, <<RowDrug, RowDevice>>, <<RowDevice, RowDrug>>,
    <<RowDrug, RowRepeat>> }

\* Contents of domain.csv for the loader.
DomainFiles == { <<Drug, DrugDevice>>, <<Drug>>, <<Drug, Drug>> }

\* The online commands, up to MaxCmds of them, on one extract.
InitL ==
  /\ domainIn \in DomainFiles
  /\ vocabIn = <<"RxNorm", "SNOMED">>
  /\ conceptIn \in ConceptFiles
  /\ relIn = <<RelTreats, RelMapsTo>>
  /\ ancIn = <<AncUp>>
  /\ InitTransformer(1)
  /\ \E db \in {FreshDb, DirtyDb} : InitLoader(db)
  /\ InitSanitizer(<<>>)
  /\ InitValidation
  /\ InitCommands
  /\ InitExtraction

NextL ==
  \/ \E nc \in BOOLEAN, b \in 1..MaxBatch : LoadCsvBegin(nc, b) /\ UNCHANGED <<varsIn, varsT, varsS, varsV, varsX, varsC>>
  \/ ClearDbBegin /\ UNCHANGED <<varsIn, varsT, varsS, varsV, varsX, varsC>>
  \/ CreateIndexesBegin /\ UNCHANGED <<varsIn, varsT, varsS, varsV, varsX, varsC>>
  \/ Connect /\ UNCHANGED <<varsIn, varsT, varsS, varsV, varsX, varsC>>
  \/ ConnectFails /\ UNCHANGED <<varsIn, varsT, varsS, varsV, varsX, varsC>>
  \/ \E yes \in BOOLEAN : Confirm(yes) /\ UNCHANGED <<varsIn, varsT, varsS, varsV, varsX, varsC>>
  \/ ShowConstraintsStep /\ UNCHANGED <<varsIn, varsT, varsS, varsV, varsX, varsC>>
  \/ DropConstraintStep /\ UNCHANGED <<varsIn, varsT, varsS, varsV, varsX, varsC>>
  \/ ShowIndexesStep /\ UNCHANGED <<varsIn, varsT, varsS, varsV, varsX, varsC>>
  \/ DropIndexStep /\ UNCHANGED <<varsIn, varsT, varsS, varsV, varsX, varsC>>
  \/ DeleteAllStep /\ UNCHANGED <<varsIn, varsT, varsS, varsV, varsX, varsC>>
  \/ CreateSchemaStep /\ UNCHANGED <<varsIn, varsT, varsS, varsV, varsX, varsC>>
  \/ LoadDomainsStep /\ UNCHANGED <<varsIn, varsT, varsS, varsV, varsX, varsC>>
  \/ LoadVocabsStep /\ UNCHANGED <<varsIn, varsT, varsS, varsV, varsX, varsC>>
  \/ CommitBatchStep /\ UNCHANGED <<varsIn, varsT, varsS, varsV, varsX, varsC>>
  \/ StatementFails /\ UNCHANGED <<varsIn, varsT, varsS, varsV, varsX, varsC>>
  \/ Success /\ UNCHANGED <<varsIn, varsT, varsS, varsV, varsX, varsC>>
  \/ ExceptClause /\ UNCHANGED <<varsIn, varsT, varsS, varsV, varsX, varsC>>
  \/ Finally /\ UNCHANGED <<varsIn, varsT, varsS, varsV, varsX, varsC>>

SpecL == InitL /\ [][NextL]_vars

\* The sanitizers on every text of up to MaxLen characters.
InitS ==
  /\ text \in Texts
  /\ fn = "none"
  /\ results = <<>>
  /\ domainIn = <<Drug, DrugDevice>>
  /\ vocabIn = <<"RxNorm", "SNOMED">>
  /\ conceptIn = <<>>
  /\ relIn = <<>>
  /\ ancIn = <<>>
  /\ InitTransformer(1)
  /\ InitLoader(FreshDb)
  /\ InitValidation
  /\ InitCommands
  /\ InitExtraction

NextS ==
  \/ \E f \in LabelSanitizers : CallLabel(f) /\ UNCHANGED <<varsIn, varsT, varsL, varsV, varsX, varsC>>
  \/ \E f \in ReltypeSanitizers : CallReltype(f) /\ UNCHANGED <<varsIn, varsT, varsL, varsV, varsX, varsC>>
  \/ LoadSynonyms /\ UNCHANGED <<varsIn, varsT, varsL, varsV, varsX, varsC>>
  \/ CallAgain /\ UNCHANGED <<varsIn, varsT, varsL, varsV, varsX, varsC>>

SpecS == InitS /\ [][NextS]_vars

RECURSIVE SchemaAfter(_, _, _)
\* create_constraints_and_indexes on the schema sch of a graph g.
SchemaAfter(sch, g, stmts) ==
  IF stmts = <<>> THEN sch
  ELSE SchemaAfter(CreateSchema(sch, g, Head(stmts)).schema, g, Tail(stmts))

\* The graph a full reload leaves: the stages in the order of load_csv, each
\* one transaction, the first failure ending the command.
LoadedGraph(sch, d, v, c, r, a) ==
  LET r1 == Transaction("Domain", EmptyGraph, sch, d)
      r2 == Transaction("Vocabulary", r1.g, sch, v)
      r3 == Transaction("Concept", r2.g, sch, c)
      r4 == Transaction("Relationship", r3.g, sch, r)
      r5 == Transaction("Ancestor", r4.g, sch, a)
  IN  IF ~r1.ok THEN r1.g
      ELSE IF ~r2.ok THEN r2.g
      ELSE IF ~r3.ok THEN r3.g
      ELSE IF ~r4.ok THEN r4.g
      ELSE r5.g

\* The validate command, on a destination nothing was loaded into, on one
\* that holds somebody else's node, and on what load_csv left of an extract.
InitV ==
  /\ domainIn \in DomainFiles
  /\ vocabIn = <<"RxNorm", "SNOMED">>
  /\ conceptIn \in ConceptFiles \cup {<<RowDrug, RowNoMatching>>, <<RowDevice>>}
  /\ relIn = <<RelTreats, RelMapsTo>>
  /\ ancIn = <<AncUp>>
  /\ InitTransformer(1)
  /\ LET sch == SchemaAfter(NoSchema, EmptyGraph, CONSTRAINTS_AND_INDEXES)
     IN  \E db \in {FreshDb, DirtyDb,
                    [graph  |-> LoadedGraph(sch, domainIn, vocabIn, conceptIn, relIn, ancIn),
                     schema |-> sch]} : InitLoader(db)
  /\ InitSanitizer(<<>>)
  /\ InitValidation
  /\ InitCommands
  /\ InitExtraction

NextV ==
  \/ \E id \in 0..MaxConceptId : ValidateBegin(id) /\ UNCHANGED <<varsIn, varsT, varsL, varsS, varsX, varsC>>
  \/ ValidateConnect /\ UNCHANGED <<varsIn, varsT, varsL, varsS, varsX, varsC>>
  \/ ValidateNodeCounts /\ UNCHANGED <<varsIn, varsT, varsL, varsS, varsX, varsC>>
  \/ ValidateRelCounts /\ UNCHANGED <<varsIn, varsT, varsL, varsS, varsX, varsC>>
  \/ \E fails \in BOOLEAN : ValidateSample(fails) /\ UNCHANGED <<varsIn, varsT, varsL, varsS, varsX, varsC>>
  \/ ValidateCallFails /\ UNCHANGED <<varsIn, varsT, varsL, varsS, varsX, varsC>>
  \/ ValidateExcept /\ UNCHANGED <<varsIn, varsT, varsL, varsS, varsX, varsC>>
  \/ ValidateFinally /\ UNCHANGED <<varsIn, varsT, varsL, varsS, varsX, varsC>>

SpecV == InitV /\ [][NextV]_vars

\* One extraction by one of the copies, into an export directory that holds
\* any of the files of an earlier extraction.
InitX ==
  /\ extraction \in Extractions
  /\ xfiles \in [1..Len(SQL_QUERIES) -> {"none", "old"}]
  /\ xpc = "connect"
  /\ xtable = 1
  /\ xconn = "none"
  /\ xfailed = 0
  /\ domainIn = <<Drug, DrugDevice>>
  /\ vocabIn = <<"RxNorm", "SNOMED">>
  /\ conceptIn = <<>>
  /\ relIn = <<>>
  /\ ancIn = <<>>
  /\ InitTransformer(1)
  /\ InitLoader(FreshDb)
  /\ InitSanitizer(<<>>)
  /\ InitValidation
  /\ InitCommands

NextX ==
  \/ XConnect /\ UNCHANGED <<varsIn, varsT, varsL, varsS, varsV, varsC>>
  \/ XConnectFails /\ UNCHANGED <<varsIn, varsT, varsL, varsS, varsV, varsC>>
  \/ XExport /\ UNCHANGED <<varsIn, varsT, varsL, varsS, varsV, varsC>>
  \/ \E at \in {"open", "copy"} : XExportFails(at) /\ UNCHANGED <<varsIn, varsT, varsL, varsS, varsV, varsC>>

SpecX == InitX /\ [][NextX]_vars

InitC ==
  /\ domainIn = <<Drug, DrugDevice>>
  /\ vocabIn = <<"RxNorm", "SNOMED">>
  /\ InitCommands
  /\ conceptIn = <<>>
  /\ relIn = <<>>
  /\ ancIn = <<>>
  /\ InitTransformer(1)
  /\ InitLoader(FreshDb)
  /\ InitSanitizer(<<>>)
  /\ InitValidation
  /\ InitExtraction

NextC ==
  \/ \E impl \in Clis : \E c \in CliCommands(impl) : CBegin(impl, c) /\ UNCHANGED <<varsIn, varsT, varsL, varsS, varsV, varsX>>
  \/ CConnect /\ UNCHANGED <<varsIn, varsT, varsL, varsS, varsV, varsX>>
  \/ CConnectFails /\ UNCHANGED <<varsIn, varsT, varsL, varsS, varsV, varsX>>
  \/ COperationReturns /\ UNCHANGED <<varsIn, varsT, varsL, varsS, varsV, varsX>>
  \/ COperationRaises /\ UNCHANGED <<varsIn, varsT, varsL, varsS, varsV, varsX>>
  \/ CExcept /\ UNCHANGED <<varsIn, varsT, varsL, varsS, varsV, varsX>>
  \/ CFinally /\ UNCHANGED <<varsIn, varsT, varsL, varsS, varsV, varsX>>

SpecC == InitC /\ [][NextC]_vars

(***************************************************************************)
(* Properties of the transformer (SpecT)                                   *)
(***************************************************************************)
\* The concept node file is complete: the concept loop of this run is over.
ConceptsWritten ==
  tpc \in {"semantic", "ancestor", "headers"} \/ (tpc = "idle" /\ truns > 0)

\* A run of prepare_for_bulk_import has returned.
RunReturned == tpc = "idle" /\ truns > 0

\* C1: for every concept row the ':LABEL' written is 'Concept;' followed by
\* standardize_label(domain_id), followed by ';Standard' if and only if
\* standard_concept is 'S', whatever the row's other fields and whatever
\* chunk the row falls in; domain "Drug" with the flag gives
\* 'Concept;Drug;Standard' and without it 'Concept;Drug'.
C1_LabelOfRow ==
  ConceptsWritten =>
    LET out == Rows(files["concept_nodes"])
    IN  /\ Len(out) = Len(conceptIn)
        /\ \A k \in 1..Len(out) :
             /\ out[k].label =
                  ConceptPrefix \o standardize_label(conceptIn[k].domain_id)
                    \o (IF conceptIn[k].standard_concept = "S"
                        THEN StandardSuffix ELSE <<>>)
             /\ conceptIn[k].domain_id = Drug =>
                  out[k].label =
                    IF conceptIn[k].standard_concept = "S"
                    THEN <<"C","o","n","c","e","p","t",";","D","r","u","g",";",
                           "S","t","a","n","d","a","r","d">>
                    ELSE <<"C","o","n","c","e","p","t",";","D","r","u","g">>

\* Two rows in two chunks, one flagged 'S' and one flagged otherwise.
C1_Witness ==
  /\ tpc = "semantic"
  /\ chunk_size = 1
  /\ Len(conceptIn) = 2
  /\ conceptIn[1].standard_concept = "S"
  /\ conceptIn[2].standard_concept = "C"
  /\ Len(files["concept_nodes"].blocks) = 2

\* C2: after prepare_for_bulk_import the concept node file holds N records
\* and the IN_DOMAIN and FROM_VOCABULARY files N records each, the k-th
\* made of the k-th input row; the semantic and ancestor files hold one
\* record per input row, in input order.
C2_OneRecordPerRow ==
  RunReturned =>
    LET nodes == Rows(files["concept_nodes"])
        doms  == Rows(files["in_domain_rels"])
        vocs  == Rows(files["from_vocab_rels"])
        sems  == Rows(files["semantic_rels"])
        ancs  == Rows(files["ancestor_rels"])
    IN  /\ Len(nodes) = Len(conceptIn)
        /\ Len(doms) = Len(conceptIn)
        /\ Len(vocs) = Len(conceptIn)
        /\ \A k \in 1..Len(conceptIn) :
             /\ nodes[k].id = conceptIn[k].concept_id
             /\ doms[k].start = conceptIn[k].concept_id
             /\ doms[k].end = conceptIn[k].domain_id
             /\ vocs[k].start = conceptIn[k].concept_id
             /\ vocs[k].end = conceptIn[k].vocabulary_id
        /\ Len(sems) = Len(relIn)
        /\ \A k \in 1..Len(relIn) :
             sems[k].start = relIn[k].concept_id_1 /\ sems[k].end = relIn[k].concept_id_2
        /\ Len(ancs) = Len(ancIn)
        /\ \A k \in 1..Len(ancIn) :
             /\ ancs[k].start = ancIn[k].descendant_concept_id
             /\ ancs[k].end = ancIn[k].ancestor_concept_id

\* C3: every chunk-appended output file is absent when the first chunk of a
\* run is about to be written, and after any number of runs holds one
\* header line and the rows of a single run.
C3_SingleRunContent ==
  /\ tpc = "concepts" =>
       \A k \in {"concept_nodes", "in_domain_rels", "from_vocab_rels"} : ~files[k].exists
  /\ tpc = "semantic" => ~files["semantic_rels"].exists
  /\ tpc = "ancestor" => ~files["ancestor_rels"].exists
  /\ RunReturned =>
       /\ \A k \in {"concept_nodes", "in_domain_rels", "from_vocab_rels"} :
            HeaderLines(files[k]) = 1 /\ Len(Rows(files[k])) = Len(conceptIn)
       /\ HeaderLines(files["semantic_rels"]) = 1
       /\ Len(Rows(files["semantic_rels"])) = Len(relIn)
       /\ HeaderLines(files["ancestor_rels"]) = 1
       /\ Len(Rows(files["ancestor_rels"])) = Len(ancIn)

\* C20: a run that returned has written, for each of the seven categories,
\* a header file that holds exactly the column names of the category's data
\* file, and has returned one command that names, for the three node
\* categories and then for the four relationship categories, the header
\* file immediately followed by the data file, then the delimiter options
\* and the destination database name; nothing was sent to the destination.
C20_HeadersAndCommand ==
  RunReturned =>
    /\ Cardinality(OutKeys) = 7
    /\ \A k \in OutKeys :
         /\ files[HeaderKey[k]].exists
         /\ Rows(files[HeaderKey[k]]) = <<>>
         /\ header_cols[HeaderKey[k]] = Columns[k]
    /\ Len(command) = 17
    /\ \A i \in 1..7 :
         LET k == (NodeFileOrder \o RelFileOrder)[i]
         IN  /\ command[2 * i].file = HeaderKey[k]
             /\ command[2 * i + 1].file = k
             /\ command[2 * i].opt = command[2 * i + 1].opt
             /\ command[2 * i].opt = IF i <= 3 THEN "--nodes" ELSE "--relationships"
    /\ command[1].opt = "neo4j-admin database import full"
    /\ command[16].opt = "--delimiter=',' --array-delimiter='|' --multiline-fields=true"
    /\ command[17].opt = "neo4j"
    /\ graph = EmptyGraph /\ schema = NoSchema

\* A second run has returned its command, the header files written twice.
C20_Witness ==
  /\ tpc = "idle"
  /\ truns = 2
  /\ Len(command) = 17
  /\ Len(conceptIn) > 0
  /\ header_cols["rels_in_domain_header"] = Columns["in_domain_rels"]

(***************************************************************************)
(* Properties of the online commands (SpecL)                               *)
(***************************************************************************)
\* The elements of a sequence.
Range(q) == {q[i] : i \in 1..Len(q)}

IsPrefix(p, q) == Len(p) <= Len(q) /\ \A i \in 1..Len(p) : p[i] = q[i]

\* The command is the full reload: load_csv without --no-clean.
FullReload == cmd = "load_csv" /\ ~no_clean

\* The command has reported its success.
Reported == lpc \in {"finally", "idle"} /\ outcome = "success"

\* clear_database has just returned: nothing was sent to the destination
\* since.
AfterClear ==
  /\ succeeded = <<"Clearing">>
  /\ \/ cmd = "clear_db"
     \/ lpc = "schema" /\ todo = CONSTRAINTS_AND_INDEXES

\* The relationships of bag B that leave the node with identifier id.
OutDegree(B, id) == SumCopies(B, {e \in BagToSet(B) : e.from = id})

\* C4: in every run of the full reload the stages start in the order
\* Clearing, SchemaCreation, LoadMetadata, LoadConcepts, LoadSemanticEdges,
\* LoadAncestorEdges, each only after the one before it has completed, and
\* success is reported only after all six have completed.
C4_StageOrder ==
  FullReload =>
    LET order == <<"Clearing", "SchemaCreation", "LoadMetadata", "LoadConcepts",
                   "LoadSemanticEdges", "LoadAncestorEdges">>
    IN  /\ IsPrefix(started, order)
        /\ IsPrefix(succeeded, started)
        /\ Len(started) <= Len(succeeded) + 1
        /\ (lpc = "success" \/ outcome = "success") => succeeded = order

\* A full reload that went through its six stages and reported success.
C4_Witness ==
  /\ FullReload
  /\ Reported
  /\ Len(succeeded) = 6
  /\ graph.ancestor # EmptyBag

\* C5: when a stage raises, the run ends as failed: the failing stage is
\* the last one started and never completes, success is not reported, and
\* the graph is as the last successful statement left it.
C5_FailureStops ==
  failedAt # "none" =>
    /\ lpc \in {"failed", "finally", "idle"}
    /\ outcome \in {"none", "failed"}
    /\ lpc = "idle" => outcome = "failed"
    /\ started # <<>>
    /\ started[Len(started)] = failedAt
    /\ failedAt \notin Range(succeeded)
    /\ graph = committed

\* The semantic edge load failed after the concepts were committed, and
\* the concepts are still there when the command has ended.
C5_Witness ==
  /\ lpc = "idle"
  /\ outcome = "failed"
  /\ failedAt = "LoadSemanticEdges"
  /\ graph.concepts # EmptyBag
  /\ graph.semantic = EmptyBag

\* C6: with batch size B the rows of a load stage are committed in batches
\* of at most B rows.
C6_BatchAtMostB == cmd = "load_csv" => maxCommit <= batch_size

\* C7: once LoadConcepts has completed, every Concept node has exactly one
\* outgoing IN_DOMAIN and exactly one outgoing FROM_VOCABULARY relationship,
\* whatever the concept, domain and vocabulary files hold.
C7_BothEdges ==
  (cmd = "load_csv" /\ "LoadConcepts" \in Range(succeeded)) =>
    \A n \in BagToSet(graph.concepts) :
      /\ OutDegree(graph.inDomain, n.concept_id) = 1
      /\ OutDegree(graph.fromVocab, n.concept_id) = 1

\* C8: when clear_database has returned the graph has no node and no
\* relationship, no constraint and no index that the catalog listed before
\* the call remains, and the statements ran in the order constraints,
\* indexes, data.
C8_ClearLeavesNothing ==
  AfterClear =>
    /\ graph = EmptyGraph
    /\ schema.constraints \cap schemaAtClear.constraints = {}
    /\ \A i \in schemaAtClear.indexes : \A j \in schema.indexes : j.name # i.name
    /\ LET rank(x) == CASE x = "DROP CONSTRAINT" -> 1
                        [] x = "DROP INDEX" -> 2
                        [] x = "DELETE" -> 3
       IN  /\ \A a, b \in 1..Len(stmtLog) : a < b => rank(stmtLog[a]) <= rank(stmtLog[b])
           /\ stmtLog # <<>>
           /\ stmtLog[Len(stmtLog)] = "DELETE"
           /\ Cardinality({a \in 1..Len(stmtLog) : stmtLog[a] = "DELETE"}) = 1

\* clear_database returned on a destination that held nodes, a constraint,
\* an index of its own and a lookup index.
C8_Witness ==
  /\ AfterClear
  /\ baseGraph # EmptyGraph
  /\ schemaAtClear.constraints # {}
  /\ LookupIndex \in schemaAtClear.indexes
  /\ \E i \in schemaAtClear.indexes : i.type = "RANGE" /\ i.owningConstraint = ""

\* C9: a full reload leaves exactly what its own load statements created,
\* each node once, and a later full reload of the same files leaves the
\* graph the first one left.
C9_ReloadTwiceAsOnce ==
  (FullReload /\ Reported) =>
    /\ graph = created
    /\ graph = firstDone.g
    /\ \A n \in BagToSet(graph.concepts) : ConceptCount(graph, n.concept_id) = 1
    /\ \A e \in BagToSet(graph.semantic) : CopiesIn(e, graph.semantic) = 1

\* The second full reload in succession has reported success on a
\* non-empty extract.
C9_Witness ==
  /\ FullReload
  /\ Reported
  /\ firstDone.runs = 2
  /\ graph.concepts # EmptyBag
  /\ graph.semantic # EmptyBag

\* C10: after a successful load, onto a destination without nodes of its
\* own, of files in which every concept's domain_id and vocabulary_id are
\* listed and every edge endpoint is a listed concept, the graph holds one
\* Concept per concept row, one Domain per domain row, one Vocabulary per
\* vocabulary row, one IN_DOMAIN and one FROM_VOCABULARY edge per concept
\* row, one semantic edge per relationship row and one HAS_ANCESTOR edge
\* per ancestor row.
C10_OnePerRow ==
  LET ids == {conceptIn[k].concept_id : k \in 1..Len(conceptIn)}
      consistent ==
        /\ \A k \in 1..Len(conceptIn) :
             /\ conceptIn[k].domain_id \in Range(domainIn)
             /\ conceptIn[k].vocabulary_id \in Range(vocabIn)
        /\ \A k \in 1..Len(relIn) :
             relIn[k].concept_id_1 \in ids /\ relIn[k].concept_id_2 \in ids
        /\ \A k \in 1..Len(ancIn) :
             /\ ancIn[k].descendant_concept_id \in ids
             /\ ancIn[k].ancestor_concept_id \in ids
      ontoEmpty == ~no_clean \/ [baseGraph EXCEPT !.others = 0] = EmptyGraph
  IN  (cmd = "load_csv" /\ Reported /\ ontoEmpty /\ consistent) =>
        /\ BagCardinality(graph.concepts) = Len(conceptIn)
        /\ \A k \in 1..Len(conceptIn) : ConceptCount(graph, conceptIn[k].concept_id) = 1
        /\ BagCardinality(graph.domains) = Len(domainIn)
        /\ BagCardinality(graph.vocabs) = Len(vocabIn)
        /\ BagCardinality(graph.inDomain) = Len(conceptIn)
        /\ BagCardinality(graph.fromVocab) = Len(conceptIn)
        /\ BagCardinality(graph.semantic) = Len(relIn)
        /\ BagCardinality(graph.ancestor) = Len(ancIn)

\* A load of two concepts, two semantic rows and an ancestor row onto an
\* empty destination, without cleaning, has reported success.
C10_Witness ==
  /\ cmd = "load_csv"
  /\ no_clean
  /\ Reported
  /\ baseGraph = EmptyGraph
  /\ Len(conceptIn) = 2
  /\ BagCardinality(graph.concepts) = 2
  /\ BagCardinality(graph.fromVocab) = 2
  /\ BagCardinality(graph.semantic) = 2
  /\ BagCardinality(graph.ancestor) = 1

\* C11: the online load describes the graph the transformer writes: every
\* loaded Concept carries the labels 'Concept', standardize_label(domain_id)
\* and 'Standard' exactly when the flag is 'S', and every loaded semantic
\* relationship has the type standardize_reltype(relationship_id) of its row.
C11_OnlineAsOffline ==
  /\ \A n \in BagToSet(graph.concepts) :
       n.labels = {LblConcept, standardize_label(n.domain_id)}
                    \cup (IF n.standard_concept = "S" THEN {LblStandard} ELSE {})
  /\ \A e \in BagToSet(graph.semantic) :
       \E k \in 1..Len(relIn) :
         /\ relIn[k].concept_id_1 = e.from
         /\ relIn[k].concept_id_2 = e.to
         /\ e.type = standardize_reltype(relIn[k].relationship_id)

(***************************************************************************)
(* Properties of the sanitizers (SpecS)                                    *)
(***************************************************************************)
\* The alphanumeric characters of s in order, those that begin a maximal
\* run uppercased, the others as they are; nothing for None.
RunsCapitalized(s) ==
  IF s = NoneValue THEN <<>>
  ELSE LET keep == SelectSeq([i \in 1..Len(s) |-> i], LAMBDA i : IsAlnum(s[i]))
       IN  [k \in 1..Len(keep) |->
              IF keep[k] = 1 \/ ~IsAlnum(s[keep[k] - 1])
              THEN ToUpper(s[keep[k]]) ELSE s[keep[k]]]

\* The characters of s uppercased, with one underscore for every maximal
\* run of other characters that has an alphanumeric character before it
\* and one after it; nothing for None.
RunsUnderscored(s) ==
  IF s = NoneValue THEN <<>>
  ELSE LET inner(i) == /\ \E j \in 1..(i - 1) : IsAlnum(s[j])
                       /\ \E j \in (i + 1)..Len(s) : IsAlnum(s[j])
           keep == SelectSeq([i \in 1..Len(s) |-> i],
                             LAMBDA i : \/ IsAlnum(s[i])
                                        \/ i > 1 /\ IsAlnum(s[i - 1]) /\ inner(i))
       IN  [k \in 1..Len(keep) |->
              IF IsAlnum(s[keep[k]]) THEN ToUpper(s[keep[k]]) ELSE "_"]

\* C12: standardize_label(s) is the concatenation of the maximal runs of
\* alphanumeric characters of s, each with its first character uppercased
\* and the others unchanged; empty and null input give the empty string.
\* (Both copies of utils.py that hold the package's standardize_label.)
C12_LabelIsRuns ==
  fn \in {"standardize_label", "standardize_label_py"} =>
    results[1] = RunsCapitalized(text)

\* C12 for the copy of utils.py the tests import.
C12_LabelIsRunsMain ==
  fn = "standardize_label" => results[1] = RunsCapitalized(text)

\* C13: standardize_reltype(s) is s with every maximal run of
\* non-alphanumeric characters replaced by one underscore, uppercased, and
\* without leading and trailing underscores; empty and null input give the
\* empty string.
C13_ReltypeIsRuns ==
  fn \in {"standardize_reltype", "standardize_reltype_py"} =>
    results[1] = RunsUnderscored(text)

\* C13 for the copy of utils.py the tests import.
C13_ReltypeIsRunsMain ==
  fn = "standardize_reltype" => results[1] = RunsUnderscored(text)

\* C14: both sanitizers are idempotent, in utils.py and in its built copy.
C14_Idempotent ==
  (Len(results) = 2 /\ fn \in {"standardize_label", "standardize_reltype",
                                "standardize_label_build", "standardize_reltype_build"}) =>
    results[2] = results[1]

\* C14 for the copy of utils.py the tests import.
C14_IdempotentMain ==
  (fn \in {"standardize_label", "standardize_reltype"} /\ Len(results) = 2) =>
    results[2] = results[1]

\* C15: every row of the semantic-relationship extract becomes exactly one
\* edge record whose ':TYPE' is standardize_reltype(relationship_id) and
\* whose start and end are the row's concept_id_1 and concept_id_2; 'maps
\* to' becomes 'MAPS_TO', never the raw name.
C15_SemanticRecords ==
  (tpc \in {"ancestor", "headers"} \/ RunReturned) =>
    LET out == Rows(files["semantic_rels"])
    IN  /\ Len(out) = Len(relIn)
        /\ \A k \in 1..Len(relIn) :
             /\ out[k].start = relIn[k].concept_id_1
             /\ out[k].end = relIn[k].concept_id_2
             /\ out[k].type = standardize_reltype(relIn[k].relationship_id)
             /\ out[k].type = RunsUnderscored(relIn[k].relationship_id)
             /\ relIn[k].relationship_id = MapsTo =>
                  out[k].type = <<"M","A","P","S","_","T","O">>

\* Two relationship rows written in two chunks.
C15_Witness ==
  /\ tpc = "ancestor"
  /\ chunk_size = 1
  /\ Len(relIn) = 2
  /\ Len(Rows(files["semantic_rels"])) = 2
  /\ relIn[2].relationship_id = MapsTo

\* The three uniqueness constraints and the two indexes of the graph model
\* are in the catalog.
AllPresent(sch) ==
  /\ {"constraint_concept_id", "constraint_domain_id", "constraint_vocabulary_id"}
       \subseteq sch.constraints
  /\ \A n \in {"index_concept_code", "index_standard_label"} :
       \E i \in sch.indexes : i.name = n

\* C16: when create_constraints_and_indexes has returned, from whatever
\* schema it was called on, the uniqueness constraints on Concept, Domain
\* and Vocabulary and the two indexes are present; called when they all
\* exist, none of its statements is refused and the schema stays as it was.
C16_SchemaIdempotent ==
  /\ "SchemaCreation" \in Range(succeeded) => AllPresent(schema)
  /\ (cmd = "create_indexes" /\ AllPresent(schemaAtClear)) =>
       /\ schema = schemaAtClear
       /\ (lpc = "schema" /\ todo # <<>>) => CreateSchema(schema, graph, Head(todo)).ok

\* create_indexes has reported success on a loaded graph whose schema was
\* complete when it was called.
C16_Witness ==
  /\ cmd = "create_indexes"
  /\ Reported
  /\ AllPresent(schemaAtClear)
  /\ graph.concepts # EmptyBag

RECURSIVE JoinWith(_, _)
\* The elements of q written one after the other with sep between them.
JoinWith(q, sep) ==
  IF q = <<>> THEN <<>>
  ELSE IF Len(q) = 1 THEN q[1]
  ELSE q[1] \o <<sep>> \o JoinWith(Tail(q), sep)

\* C17: the loaded synonyms list is empty when the field is empty or
\* absent; otherwise it is the field split on '|', in the field's order and
\* with duplicates kept: its elements hold no '|' and, written with '|'
\* between them, give the field back ('a|a' gives ['a','a']).
C17_Synonyms ==
  fn = "synonyms" =>
    LET list == results[1]
    IN  IF text = NoneValue \/ text = <<>>
        THEN list = <<>>
        ELSE /\ \A k \in 1..Len(list) : \A i \in 1..Len(list[k]) : list[k][i] # "|"
             /\ JoinWith(list, "|") = text
             /\ text = <<"a", "|", "a">> => list = << <<"a">>, <<"a">> >>

\* The field 'a|a' was split.
C17_Witness ==
  /\ fn = "synonyms"
  /\ text = <<"a", "|", "a">>
  /\ Len(results[1]) = 2

\* C23: the statements of a run are sent one after the other, each after
\* the result of the one before: a statement is sent only when every earlier
\* one has returned without error, so a failed statement is the last one of
\* its run, and no statement is sent twice.
C23_OneAtATime ==
  /\ \A a, b \in 1..Len(issued) : a < b => issued[a].stmt # issued[b].stmt
  /\ \A a \in 1..Len(issued) : a < Len(issued) => issued[a].ok
  /\ failedAt # "none" /\ lpc # "idle" =>
       /\ issued # <<>>
       /\ ~issued[Len(issued)].ok
       /\ lpc \notin StatementPositions

\* A reload sent its statements up to the concept load, whose one batch
\* failed; nothing was sent after it.
C23_Witness ==
  /\ lpc = "finally"
  /\ failedAt = "LoadConcepts"
  /\ Len(issued) > 5
  /\ ~issued[Len(issued)].ok
  /\ issued[Len(issued)].stmt.pos = "concepts"

\* C24: a command that has not obtained its driver, and so one that failed
\* to obtain it because the destination is unreachable, has sent no
\* statement: graph and schema are as they were when it began, and the
\* command ends as failed.
C24_NoDriverNoMutation ==
  cmd # "none" /\ driver = "none" =>
    /\ issued = <<>>
    /\ stmtLog = <<>>
    /\ started = <<>>
    /\ graph = baseGraph
    /\ schema = schemaAtClear
    /\ lpc = "idle" /\ outcome # "cancelled" => outcome = "failed"

\* Each of the three commands has failed to reach a destination that holds
\* nodes: here create_indexes after a load.
C24_Witness ==
  /\ cmd = "create_indexes"
  /\ lpc = "idle"
  /\ driver = "none"
  /\ outcome = "failed"
  /\ graph.concepts # EmptyBag

\* No two Concept, Domain or Vocabulary nodes of g share their identifier.
UniqueIdentifiers(g) ==
  /\ \A n \in BagToSet(g.concepts) : ConceptCount(g, n.concept_id) = 1
  /\ \A d \in BagToSet(g.domains) : CopiesIn(d, g.domains) = 1
  /\ \A v \in BagToSet(g.vocabs) : CopiesIn(v, g.vocabs) = 1

\* load_csv --no-clean was started on the graph a full reload left.
NoCleanOnLoaded ==
  /\ cmd = "load_csv"
  /\ no_clean
  /\ firstDone.runs > 0
  /\ baseGraph = firstDone.g

\* C25: load_csv --no-clean on a graph that holds a complete previous load
\* leaves no two nodes with one identifier: the schema is created before
\* the load stages, the run fails no later than LoadMetadata, and the graph
\* stays as it was before the run.
C25_NoCleanOnLoadedFails ==
  NoCleanOnLoaded =>
    /\ UniqueIdentifiers(graph)
    /\ graph = baseGraph
    /\ "LoadMetadata" \notin Range(succeeded)
    /\ failedAt \in {"none", "SchemaCreation", "LoadMetadata"}
    /\ lpc = "idle" => outcome = "failed"
    /\ "LoadMetadata" \in Range(started) =>
         /\ started = <<"SchemaCreation", "LoadMetadata">>
         /\ succeeded = <<"SchemaCreation">>

\* The second load was refused by the constraint on Domain.
C25_Witness ==
  /\ NoCleanOnLoaded
  /\ lpc = "idle"
  /\ outcome = "failed"
  /\ failedAt = "LoadMetadata"
  /\ graph.concepts # EmptyBag
  /\ graph.inDomain # EmptyBag

\* C26: a load_csv or clear_db whose wipe confirmation was declined sends
\* no statement at all: no stage is entered, nothing is recorded as issued,
\* and the graph, the constraints and the indexes are those the command
\* found.
C26_DeclineSendsNothing ==
  outcome = "cancelled" =>
    /\ cmd \in {"load_csv", "clear_db"}
    /\ lpc \in {"finally", "idle"}
    /\ started = <<>>
    /\ succeeded = <<>>
    /\ issued = <<>>
    /\ stmtLog = <<>>
    /\ failedAt = "none"
    /\ graph = baseGraph
    /\ schema = schemaAtClear

\* A declined load_csv has returned, on a store that held a graph and its
\* schema.
C26_Witness ==
  /\ outcome = "cancelled"
  /\ cmd = "load_csv"
  /\ lpc = "idle"
  /\ driver = "closed"
  /\ graph # EmptyGraph
  /\ schema = schemaAtClear
  /\ ShowConstraints(schema) # <<>>

(***************************************************************************)
(* Properties of the commands' functions (SpecC)                           *)
(***************************************************************************)
\* An invocation in which the driver or the wrapped operation raised has
\* returned to its caller.
FailedInvocation == cpc = "idle" /\ ccalls > 0 /\ cfault # "none"

\* C27: when the online load, the clearing or the schema creation raises,
\* the command ends in an error: the exception reaches the caller and the
\* success message is not emitted.
C27_FailureReachesCaller ==
  FailedInvocation /\ ccmd \in {"load_csv", "clear_db", "create_indexes"} =>
    /\ cexit = "raised"
    /\ \A i \in DOMAIN cmsgs : cmsgs[i] # "success"

\* What every copy does: the success message is not emitted after a
\* failure, and the error is logged.
C27_NoSuccessMessage ==
  FailedInvocation =>
    /\ \A i \in DOMAIN cmsgs : cmsgs[i] # "success"
    /\ cmsgs = <<"error">>

\* What the copy whose except clauses raise does.
C27_ReraisedByPy ==
  FailedInvocation /\ cli = "py" => cexit = "raised"

\* C28: a command that opened a connection to the destination has closed
\* it when it returns, whether the operation it wraps returned or raised.
C28_DriverClosedOnReturn ==
  cpc = "idle" /\ ccalls > 0 => cdriver # "open"

\* What the functions that close the driver in a finally clause do, on
\* every path; and what the others do when the operation returns.
C28_ClosedByFinally ==
  cpc = "idle" /\ ccalls > 0 /\ (ClosesInFinally(cli, ccmd) \/ cfault = "none") =>
    /\ cdriver # "open"
    /\ cdriver = "closed" <=> (OpensDriver(cli, ccmd) /\ cfault # "connect")

(***************************************************************************)
(* Properties of the validate command (SpecV)                              *)
(***************************************************************************)
RECURSIVE SumOf(_, _)
\* The sum of the values of f over the keys S.
SumOf(f, S) ==
  IF S = {} THEN 0
  ELSE LET x == CHOOSE y \in S : TRUE
       IN  f[x] + SumOf(f, S \ {x})

\* The number of nodes of g.
TotalNodes(g) ==
  BagCardinality(g.concepts) + BagCardinality(g.domains)
    + BagCardinality(g.vocabs) + g.others

\* The label sets that nodes of g carry.
LabelSets(g) ==
  {n.labels : n \in BagToSet(g.concepts)}
    \cup (IF BagToSet(g.domains) # {} THEN {{LblDomain}} ELSE {})
    \cup (IF BagToSet(g.vocabs) # {} THEN {{LblVocabulary}} ELSE {})
    \cup (IF g.others > 0 THEN {{LblOther}} ELSE {})

\* get_node_counts has returned in the command in progress or just over.
NodesCounted ==
  \/ vpc \in {"rel_counts", "sample"}
  \/ vpc \in {"except", "finally"} /\ faultAt \notin {"connect", "node_counts"}
  \/ vpc = "idle" /\ vdriver = "closed" /\ faultAt \notin {"connect", "node_counts"}

\* C18: get_node_counts returns one entry for each label set that nodes
\* carry, so that the counts sum to the number of nodes (a node with the
\* labels Concept, Drug and Standard is counted once).
C18_CountsByLabelSet ==
  NodesCounted =>
    /\ Cardinality(DOMAIN node_counts) = Cardinality(LabelSets(graph))
    /\ SumOf(node_counts, DOMAIN node_counts) = TotalNodes(graph)

\* validate showed the line m.
Shown(m) == \E i \in DOMAIN shown : shown[i] = m

\* The probe has returned or raised in the command in progress or just over.
Probed ==
  /\ vpc \in {"except", "finally", "idle"}
  /\ vdriver # "none"
  /\ faultAt \in {"none", "sample"}

\* C19: verify_sample_concept returns None, and does not raise, when no
\* Concept has the identifier; it raises, and does not return None, when the
\* query fails; validate shows "not found" only for the first and the error
\* only for the second.
C19_NotFoundIsNotFailure ==
  Probed =>
    /\ faultAt = "sample" <=> sample.raised
    /\ faultAt = "none" /\ ConceptCount(graph, concept_id) = 0
         => ~sample.raised /\ sample.value = <<>>
    /\ vpc \in {"finally", "idle"} =>
         /\ sample.raised <=> Shown("Error during validation")
         /\ sample.raised => ~Shown("not found.")
         /\ ~sample.raised /\ sample.value = <<>> <=> Shown("not found.")

\* Both outcomes of the probe were shown: here for an absent concept.
C19_Witness ==
  /\ vpc = "idle"
  /\ faultAt = "none"
  /\ BagCardinality(graph.concepts) > 0
  /\ ConceptCount(graph, concept_id) = 0
  /\ Shown("not found.")

(***************************************************************************)
(* Properties of the extraction (SpecX)                                    *)
(***************************************************************************)
\* C21: when the export of a table failed, the extraction has raised, the
\* export directory holds no file for that table, and no later table was
\* exported.
C21_FailedFileDiscarded ==
  xfailed > 0 =>
    /\ xpc = "raised"
    /\ xfiles[xfailed] = "none"
    /\ \A i \in xfailed + 1..Len(SQL_QUERIES) : xfiles[i] \notin {"new", "partial"}

\* The same, of extract_data alone.
C21_DiscardedByExtractData ==
  extraction = "py" => C21_FailedFileDiscarded

(***************************************************************************)
(* Properties of the transformer on a malformed extract (SpecM)            *)
(***************************************************************************)
\* The positions of a run up to the stage that transforms the file.
PositionsUpTo(file) ==
  CASE file = "domain"       -> {"metadata"}
    [] file = "vocabulary"   -> {"metadata"}
    [] file = "concept"      -> {"metadata", "concepts"}
    [] file = "relationship" -> {"metadata", "concepts", "semantic"}
    [] file = "ancestor"     -> {"metadata", "concepts", "semantic", "ancestor"}

\* The output keys of the files transformed before the file.
KeysBefore(file) ==
  CASE file = "domain"       -> {}
    [] file = "vocabulary"   -> {"domain_nodes"}
    [] file = "concept"      -> NodeKeys \ {"concept_nodes"}
    [] file = "relationship" -> NodeKeys \cup {"in_domain_rels", "from_vocab_rels"}
    [] file = "ancestor"     -> OutKeys \ {"ancestor_rels"}

\* The output keys of the files transformed after the file.
KeysAfter(file) ==
  CASE file = "domain"       -> OutKeys \ {"domain_nodes"}
    [] file = "vocabulary"   -> (OutKeys \ NodeKeys) \cup {"concept_nodes"}
    [] file = "concept"      -> {"semantic_rels", "ancestor_rels"}
    [] file = "relationship" -> {"ancestor_rels"}
    [] file = "ancestor"     -> {}

\* C22: when an extract file lacks a required column, the run raises at
\* that file and goes no further; the output files of the preceding tables
\* are in place, no output file of the following tables is written, and no
\* header file or command is produced.
C22_MissingColumnStops ==
  missing # NoColumn =>
    /\ tpc \in PositionsUpTo(missing.file) \cup {"idle", "raised"}
    /\ truns = 0
    /\ command = <<>>
    /\ \A h \in HeaderKeys : ~files[h].exists
    /\ \A k \in KeysAfter(missing.file) : ~files[k].exists
    /\ tpc = "raised" =>
         \A k \in KeysBefore(missing.file) : files[k].exists /\ HeaderLines(files[k]) = 1

\* The same, of the columns whose lack raises KeyError.
C22_KeyErrorStops ==
  KeyErrorStage(missing) # "none" => C22_MissingColumnStops

\* The probe's query ran and verify_sample_concept returned.
ProbeReturned == Probed /\ faultAt = "none" /\ vpc \in {"finally", "idle"}

\* C29: verify_sample_concept returns None exactly when no Concept node has
\* the identifier; for every Concept that exists, one without outgoing
\* relationships and the one with identifier 0 included, it returns a report
\* with the node's identifier, labels and number of synonyms.
C29_NotFoundIffAbsent ==
  ProbeReturned =>
    /\ sample.value = <<>> <=> ConceptCount(graph, concept_id) = 0
    /\ sample.value # <<>> =>
         \E n \in BagToSet(graph.concepts) :
           /\ n.concept_id = concept_id
           /\ sample.value[1].concept_id = concept_id
           /\ sample.value[1].labels = n.labels
           /\ sample.value[1].synonym_count = Len(n.synonyms)

\* What the function does: None for an absent Concept, and a report only
\* for a Concept that exists, has an outgoing relationship and whose
\* identifier is not 0; a report carries that node's values.
C29_ReportOnlyOfConnected ==
  ProbeReturned =>
    /\ ConceptCount(graph, concept_id) = 0 => sample.value = <<>>
    /\ sample.value # <<>> <=>
         /\ ConceptCount(graph, concept_id) > 0
         /\ concept_id # 0
         /\ \E t \in DbRelationshipTypes(graph) : CountType(graph, t, {concept_id}) > 0
    /\ sample.value # <<>> =>
         \E n \in BagToSet(graph.concepts) :
           /\ n.concept_id = concept_id
           /\ sample.value[1].labels = n.labels
           /\ sample.value[1].synonym_count = Len(n.synonyms)

\* The two cases do not arise: neither a Concept 0 that has relationships
\* nor a Concept that has none is reported as not found.
C29_ZeroNotFound ==
  ~(ProbeReturned /\ concept_id = 0 /\ ConceptCount(graph, 0) > 0
      /\ sample.value = <<>>)

C29_UnconnectedNotFound ==
  ~(ProbeReturned /\ concept_id # 0 /\ ConceptCount(graph, concept_id) > 0
      /\ sample.value = <<>>)

\* A label of the destination: not empty, letters and digits only.
ValidLabel(w) == w # <<>> /\ \A i \in DOMAIN w : IsAlnum(w[i])

\* The elements of a ':LABEL' value.
LabelElements(label) == SplitChar(label, ";", <<>>, <<>>)

\* A text with a letter or a digit in it.
Named(t) == t # NoneValue /\ \E i \in DOMAIN t : IsAlnum(t[i])

\* C30: in every concept node record the transformer wrote, each element of
\* the ':LABEL' value is a non-empty string of letters and digits, whatever
\* the row's domain_id, the empty string included.
C30_LabelElementsValid ==
  ConceptsWritten =>
    LET out == Rows(files["concept_nodes"])
    IN  \A k \in 1..Len(out) :
          \A j \in DOMAIN LabelElements(out[k].label) :
            ValidLabel(LabelElements(out[k].label)[j])

\* What the transformer does: the elements are valid for every row whose
\* domain_id holds a letter or a digit, and the row of an empty domain_id
\* gets 'Concept;' and what the flag adds, with an empty element.
C30_ValidForNamedDomains ==
  ConceptsWritten =>
    LET out == Rows(files["concept_nodes"])
    IN  /\ Len(out) = Len(conceptIn)
        /\ \A k \in 1..Len(out) :
              LET elems == LabelElements(out[k].label)
              IN  /\ Len(elems) = IF conceptIn[k].standard_concept = "S" THEN 3 ELSE 2
                  /\ elems[1] = <<"C","o","n","c","e","p","t">>
                  /\ Named(conceptIn[k].domain_id) =>
                       \A j \in DOMAIN elems : ValidLabel(elems[j])
                  /\ conceptIn[k].domain_id = <<>> => elems[2] = <<>>

\* standardize_label of the transformer's copy of utils.py: a valid label
\* for a text with a letter or a digit, the empty string otherwise.
C30_SanitizedText ==
  fn = "standardize_label" =>
    IF Named(text) THEN ValidLabel(results[1]) ELSE results[1] = <<>>

====
